---------------------------- MODULE Spec2Model ----------------------------
(***************************************************************************)
(* A model of the case-data pipeline of rben01/covid19.                    *)
(*                                                                         *)
(*   case_tracker.py : assign_location_names, clean_up,                    *)
(*                     keep_only_n_largest_locations                       *)
(*   read_in_data.py : SaveFormats.append_percapita_stage_count,           *)
(*                     SaveFormats.get_df_with_outbreak_start_date_and_    *)
(*                     days_since                                          *)
(*                                                                         *)
(* A dataframe is a sequence of rows (records); a float is a pair          *)
(* <<numerator, denominator>> so that division is exact: <<0, 0>> is NaN   *)
(* and <<1, 0>> is +inf, the two results numpy gives a division by zero.   *)
(***************************************************************************)
EXTENDS Integers, Sequences, FiniteSets

VARIABLES
    pc,     \* position in the pipeline
    df,     \* the dataframe the last step was given
    n,      \* the n last passed to keep_only_n_largest_locations (0: none yet)
    out,    \* what the last step returned: [err, rows]
    clock   \* what the calls of pd.Timestamp.now() of the last step returned

vars == <<pc, df, n, out, clock>>

---------------------------------------------------------------------------
(* Bounds of the model *)

MaxRows == 3
MaxDate == 2
MaxN == 3
MaxFields == 2

\* The calls of request_file_and_save main makes in a behaviour
MaxCalls == 2

---------------------------------------------------------------------------
(* Values *)

\* pd.NA in a string column
NA == "<NA>"

\* CaseTypes
CONFIRMED == "Cases"
DEATHS == "Deaths"
CONFIRMED_PER_CAPITA == "Cases Per Cap."
DEATHS_PER_CAPITA == "Deaths Per Cap."
RECOVERED == "Recovered"

\* Locations
WORLD == "World"
WORLD_MINUS_CHINA == "Non-China"
CHINA == "China"
USA == "United States"

\* The divisor of (...).dt.total_seconds() / 86400
SecondsPerDay == 86400

\* floats
NaN == <<0, 0>>
Inf == <<1, 0>>
Num(k) == <<k, 1>>
IsNaN(x) == x = NaN

\* x >= y on floats: False whenever either side is NaN
Ge(x, y) == ~IsNaN(x) /\ ~IsNaN(y) /\ x[1] * y[2] >= y[1] * x[2]

\* Python's order on the strings the model uses: the position in this list
StrOrder ==
    <<"", "Cases", "Cases Per Cap.", "China", "Deaths", "Deaths Per Cap.",
      "France", "Georgia", "Georgia (country)", "Hong Kong", "Hubei", "Iran",
      "Italy", "New York", "Non-China", "Recovered", "Spain", "United States",
      "World">>

StrRankOf ==
    [s \in {StrOrder[i] : i \in DOMAIN StrOrder} |->
        CHOOSE i \in DOMAIN StrOrder : StrOrder[i] = s]

StrRank(s) == StrRankOf[s]

StrLt(a, b) == StrRank(a) < StrRank(b)

---------------------------------------------------------------------------
(* Sequences as pandas objects *)

Last(s) == s[Len(s)]

MinNat(a, b) == IF a <= b THEN a ELSE b

\* A stable sort of s by the order lt, given as the set of the pairs <<i, j>>
\* with s[i] before s[j]: the element at position p is the one with p - 1
\* elements before it (strictly smaller, or equal and earlier)
SortedBy(s, lt) ==
    LET pos == [i \in DOMAIN s |->
                  1 + Cardinality({j \in DOMAIN s :
                        <<j, i>> \in lt \/ (<<i, j>> \notin lt /\ j < i)})]
    IN  [p \in DOMAIN s |-> s[CHOOSE i \in DOMAIN s : pos[i] = p]]

---------------------------------------------------------------------------
(* case_tracker.py *)

\* The dict given to .replace in assign_location_names
CountryReplacements(c) ==
    CASE c = "Iran, Islamic Republic of" -> "Iran"
      [] c = "Korea, Republic of" -> "South Korea"
      [] c = "Georgia" -> "Georgia (country)"
      [] c = "Viet Nam" -> "Vietnam"
      [] c = "XKX" -> "Kosovo"
      [] OTHER -> c

\* Includes D.C.; has length 51
USA_STATE_CODES ==
    {"AL", "AK", "AZ", "AR", "CA", "CO", "CT", "DC", "DE", "FL",
     "GA", "HI", "ID", "IL", "IN", "IA", "KS", "KY", "LA", "ME",
     "MD", "MA", "MI", "MN", "MS", "MO", "MT", "NE", "NV", "NH",
     "NJ", "NM", "NY", "NC", "ND", "OH", "OK", "OR", "PA", "RI",
     "SC", "SD", "TN", "TX", "UT", "VT", "VA", "WA", "WV", "WI",
     "WY"}

\* A row of the table SaveFormats.CSV.read returns from the web, with the
\* columns the pipeline reads. The scraper's state column is State Code;
\* State is the name usa_state_abbreviations.csv gives the code, and the code
\* itself where it gives none. The scraper's country column is Country Code;
\* Country is the name country_codes.csv gives the code, and the code itself
\* where it gives none ("US", which is no three-letter code).
RawRow(country, state_code, date, ctype, count) ==
    [country |-> country,
     state |-> CASE state_code = "GA" -> "Georgia"
                 [] state_code = "NY" -> "New York"
                 [] OTHER -> state_code,
     county |-> NA, city |-> NA,
     state_code |-> state_code,
     country_code |-> CASE country = USA -> "USA"
                        [] country = CHINA -> "CHN"
                        [] country = "US" -> "US"
                        [] OTHER -> "---",
     date |-> date, ctype |-> ctype, count |-> count]

\* The rows of country code "US" are dropped, and with them the rows with
\* no country code, on which the comparison is <NA>; then the rows of a
\* country, China or the USA that are not at country, province or state
\* level, and the rows of the two unused statistics
remove_extraneous_rows(d) ==
    SelectSeq(d, LAMBDA r :
        /\ r.country_code # NA /\ r.country_code # "US"
        /\ \/ /\ r.country \notin {USA, CHINA}
              /\ r.city = NA /\ r.county = NA /\ r.state = NA
           \/ r.country = CHINA /\ r.state # NA
           \/ /\ r.country = USA
              /\ r.city = NA /\ r.county = NA
              /\ r.state_code \in USA_STATE_CODES
        /\ r.ctype \notin {"GrowthFactor", "Tested"})

\* groupby([DATE, CASE_TYPE])[CASE_COUNT].sum() of the table, of the rows of
\* China and of the rows of the USA, and world.sub(china), which is NaN on
\* a (date, case type) China has no row of; one table per aggregate, in the
\* order of the dict, is appended to df
append_aggregates(d) ==
    LET RECURSIVE Sum(_)
        Sum(rows) ==
            IF rows = <<>> THEN Num(0)
            ELSE IF IsNaN(Head(rows).count) THEN Sum(Tail(rows))
            ELSE LET rest == Sum(Tail(rows))
                 IN  <<Head(rows).count[1] * rest[2] + rest[1] * Head(rows).count[2],
                       Head(rows).count[2] * rest[2]>>
        KeysOf(rows) == {<<rows[i].date, rows[i].ctype>> : i \in DOMAIN rows}
        KeyBefore(a, b) == a[1] < b[1] \/ (a[1] = b[1] /\ StrLt(a[2], b[2]))
        Index(keys) ==
            [p \in 1..Cardinality(keys) |->
                CHOOSE k \in keys : Cardinality({j \in keys : KeyBefore(j, k)}) = p - 1]
        Of(rows, k) == SelectSeq(rows, LAMBDA r : <<r.date, r.ctype>> = k)
        china == SelectSeq(d, LAMBDA r : r.country = CHINA)
        usa == SelectSeq(d, LAMBDA r : r.country = USA)
        Difference(k) ==
            IF k \in KeysOf(china)
            THEN <<Sum(Of(d, k))[1] * Sum(Of(china, k))[2]
                      - Sum(Of(china, k))[1] * Sum(Of(d, k))[2],
                   Sum(Of(d, k))[2] * Sum(Of(china, k))[2]>>
            ELSE NaN
        Aggregate(country, rows, difference) ==
            LET index == Index(KeysOf(rows))
            IN  [p \in DOMAIN index |->
                    [country |-> country, state |-> NA, county |-> NA,
                     city |-> NA, state_code |-> NA, country_code |-> NA,
                     date |-> index[p][1], ctype |-> index[p][2],
                     count |-> IF difference THEN Difference(index[p])
                               ELSE Sum(Of(rows, index[p]))]]
    IN  d \o Aggregate(WORLD, d, FALSE) \o Aggregate(CHINA, china, FALSE)
          \o Aggregate(USA, usa, FALSE) \o Aggregate(WORLD_MINUS_CHINA, d, TRUE)

assign_location_names(d) ==
    [i \in DOMAIN d |->
        LET country == CountryReplacements(d[i].country)
        IN  [country |-> country,
             state |-> d[i].state,
             county |-> d[i].county,
             city |-> d[i].city,
             state_code |-> d[i].state_code,
             country_code |-> d[i].country_code,
             date |-> d[i].date,
             ctype |-> d[i].ctype,
             count |-> d[i].count,
             is_state |-> d[i].state # NA,
             loc |-> IF d[i].state # NA THEN d[i].state ELSE country]]

fillna(s) == IF s = NA THEN "" ELSE s

\* Variant: the case type sorted before the date
CleanUpLtTypeFirst(a, b) ==
    \/ StrLt(a.loc, b.loc)
    \/ a.loc = b.loc /\ StrLt(a.ctype, b.ctype)
    \/ a.loc = b.loc /\ a.ctype = b.ctype /\ a.date < b.date

CleanUpLt(a, b) ==
    \/ StrLt(a.loc, b.loc)
    \/ a.loc = b.loc /\ a.date < b.date
    \/ a.loc = b.loc /\ a.date = b.date /\ StrLt(a.ctype, b.ctype)

clean_up(d) ==
    LET filled == [i \in DOMAIN d |->
                     [d[i] EXCEPT !.city = fillna(@), !.county = fillna(@),
                                  !.state_code = fillna(@), !.state = fillna(@),
                                  !.country = fillna(@),
                                  !.country_code = fillna(@),
                                  !.loc = fillna(@), !.ctype = fillna(@)]]
    IN  SortedBy(filled, {ij \in (DOMAIN d) \X (DOMAIN d) :
                            CleanUpLt(filled[ij[1]], filled[ij[2]])})

\* Variant: no restriction to the confirmed case type
AllRows(d) == d

\* df[df[Columns.CASE_TYPE] == CaseTypes.CONFIRMED]
ConfirmedRows(d) == SelectSeq(d, LAMBDA r : r.ctype = CONFIRMED)

\* The groupby key of get_n_largest_locations
LocationKey(r) == <<r.loc, r.country, r.state>>

\* Python's order on tuples of three strings
KeyLt(a, b) ==
    \/ StrLt(a[1], b[1])
    \/ a[1] = b[1] /\ StrLt(a[2], b[2])
    \/ a[1] = b[1] /\ a[2] = b[2] /\ StrLt(a[3], b[3])

\* The keys of a groupby (sort=True), in order
SortedKeys(keys) ==
    LET pos(k) == 1 + Cardinality({j \in keys : KeyLt(j, k)})
    IN  [p \in 1..Cardinality(keys) |-> CHOOSE k \in keys : pos(k) = p]

\* .groupby([LOCATION_NAME, COUNTRY, STATE]).apply(lambda g: g[CASE_COUNT].iloc[-1])
\* a Series, here a sequence of [key, value] in key order
CurrentByLocation(conf) ==
    LET keys == SortedKeys({LocationKey(conf[i]) : i \in DOMAIN conf})
    IN  [p \in DOMAIN keys |->
            [key |-> keys[p],
             value |-> Last(SelectSeq(conf,
                            LAMBDA r : LocationKey(r) = keys[p])).count]]

ValueGt(a, b) == Ge(a.value, b.value) /\ ~Ge(b.value, a.value)

\* Variant: one element more than asked for
nlargestOneMore(series, k) ==
    LET valid == SelectSeq(series, LAMBDA e : ~IsNaN(e.value))
        desc == SortedBy(valid, {ij \in (DOMAIN valid) \X (DOMAIN valid) :
                                    ValueGt(valid[ij[1]], valid[ij[2]])})
    IN  SubSeq(desc, 1, MinNat(IF k < 0 THEN 0 ELSE k + 1, Len(desc)))

\* Series.nlargest(n): NaN dropped, descending, the first of equals kept
nlargest(series, k) ==
    LET valid == SelectSeq(series, LAMBDA e : ~IsNaN(e.value))
        desc == SortedBy(valid, {ij \in (DOMAIN valid) \X (DOMAIN valid) :
                                    ValueGt(valid[ij[1]], valid[ij[2]])})
    IN  SubSeq(desc, 1, MinNat(IF k < 0 THEN 0 ELSE k, Len(desc)))

\* Series.min(): NaN for an empty series
SeriesMin(series) ==
    IF Len(series) = 0 THEN NaN
    ELSE LET i == CHOOSE i \in DOMAIN series :
                    \A j \in DOMAIN series : Ge(series[j].value, series[i].value)
         IN  series[i].value

get_n_largest_locations(d, k) == nlargest(CurrentByLocation(ConfirmedRows(d)), k)

\* The names of the groups of d.groupby(LOCATION_NAME)
LocationNames(d) == {d[i].loc : i \in DOMAIN d}

\* g.loc[g[CASE_TYPE] == CONFIRMED, CASE_COUNT] for the group named loc
ConfirmedCountsOf(d, loc) ==
    SelectSeq(d, LAMBDA r : r.loc = loc /\ r.ctype = CONFIRMED)

\* Variant: the last confirmed count strictly above the cutoff
AboveCutoffStrict(d, loc, cutoff) ==
    /\ Ge(Last(ConfirmedCountsOf(d, loc)).count, cutoff)
    /\ Last(ConfirmedCountsOf(d, loc)).count # cutoff

\* Variant: the last confirmed count not below the cutoff
AboveCutoffNotBelow(d, loc, cutoff) ==
    ~(Ge(cutoff, Last(ConfirmedCountsOf(d, loc)).count)
        /\ Last(ConfirmedCountsOf(d, loc)).count # cutoff)

\* The lambda of keep_only_above_cutoff, on a group that has a confirmed row
AboveCutoff(d, loc, cutoff) == Ge(Last(ConfirmedCountsOf(d, loc)).count, cutoff)

Returned(rows) == [err |-> "", rows |-> rows]
Raised(e) == [err |-> e, rows |-> <<>>]

\* Variant: only the confirmed rows of a kept location are returned
keep_only_above_cutoff_confirmed_rows(d, cutoff) ==
    IF \E loc \in LocationNames(d) : Len(ConfirmedCountsOf(d, loc)) = 0
    THEN Raised("IndexError")
    ELSE Returned(SelectSeq(d, LAMBDA r : /\ AboveCutoff(d, r.loc, cutoff)
                                          /\ r.ctype = CONFIRMED))

\* df.groupby(LOCATION_NAME).filter(...): .iloc[-1] of an empty selection
\* raises IndexError; the kept rows stay in the order of d
keep_only_above_cutoff(d, cutoff) ==
    IF \E loc \in LocationNames(d) : Len(ConfirmedCountsOf(d, loc)) = 0
    THEN Raised("IndexError")
    ELSE Returned(SelectSeq(d, LAMBDA r : AboveCutoff(d, r.loc, cutoff)))

\* With no confirmed row at all the groupby-apply yields an empty DataFrame,
\* and DataFrame.nlargest(n) lacks its `columns` argument: TypeError
keep_only_n_largest_locations(d, k) ==
    IF Len(ConfirmedRows(d)) = 0
    THEN Raised("TypeError")
    ELSE LET n_largest_location_case_counts == get_n_largest_locations(d, k)
             case_count_cutoff == SeriesMin(n_largest_location_case_counts)
         IN  keep_only_above_cutoff(d, case_count_cutoff)

\* Variant: the aggregate rows of the USA are not filtered out
UsaStatesRowsAnyLevel(d) == SelectSeq(d, LAMBDA r : r.country = USA)

\* df[(df[COUNTRY] == Locations.USA) & df[IS_STATE]]
UsaStatesRows(d) == SelectSeq(d, LAMBDA r : r.country = USA /\ r.is_state)

\* df[(df[COUNTRY] == Locations.CHINA) & df[IS_STATE]]
ChineseProvincesRows(d) == SelectSeq(d, LAMBDA r : r.country = CHINA /\ r.is_state)

\* df[~df[IS_STATE] & ~df[LOCATION_NAME].isin([WORLD, WORLD_MINUS_CHINA, CHINA])]
CountriesRows(d) ==
    SelectSeq(d, LAMBDA r : ~r.is_state /\ r.loc \notin {WORLD, WORLD_MINUS_CHINA, CHINA})

get_countries_df(d, k) == keep_only_n_largest_locations(CountriesRows(d), k)

get_usa_states_df(d, k) == keep_only_n_largest_locations(UsaStatesRows(d), k)

get_chinese_provinces_df(d, k) ==
    keep_only_n_largest_locations(ChineseProvincesRows(d), k)

---------------------------------------------------------------------------
(* constants.py: the strict enums and the lookups of CaseInfo.  An enum     *)
(* member is the string its __str__ (or repr) shows.                        *)

DiseaseStage == <<"DS.CONFIRMED", "DS.DEATH">>
Counting == <<"C.TOTAL_CASES", "C.PER_CAPITA">>
Select == <<"Select.DEFAULT", "Select.ALL">>
InfoField == <<"IF.CASE_TYPE", "IF.THRESHOLD", "IF.DASH_STYLE">>

Members(enum) == {enum[i] : i \in DOMAIN enum}

\* ABCStrictEnum.verify: "" if it returns, else the exception it raises
verify(cls, item, allow_select) ==
    IF \/ item \in Members(Select) /\ allow_select
       \/ item \notin Members(Select) /\ item \in Members(cls)
    THEN "" ELSE "StrictEnumError"

\* CaseInfo._CASE_TYPES
CASE_TYPES(stage, count) ==
    CASE stage = "DS.CONFIRMED" /\ count = "C.TOTAL_CASES" -> CONFIRMED
      [] stage = "DS.CONFIRMED" /\ count = "C.PER_CAPITA" -> CONFIRMED_PER_CAPITA
      [] stage = "DS.DEATH" /\ count = "C.TOTAL_CASES" -> DEATHS
      [] stage = "DS.DEATH" /\ count = "C.PER_CAPITA" -> DEATHS_PER_CAPITA

\* CaseInfo._THRESHOLDS
THRESHOLDS(stage, count) ==
    CASE stage = "DS.CONFIRMED" /\ count = "C.TOTAL_CASES" -> Num(100)
      [] stage = "DS.CONFIRMED" /\ count = "C.PER_CAPITA" -> <<1, 100000>>
      [] stage = "DS.DEATH" /\ count = "C.TOTAL_CASES" -> Num(25)
      [] stage = "DS.DEATH" /\ count = "C.PER_CAPITA" -> <<1, 1000000>>

\* CaseInfo._DASH_STYLES
DASH_STYLES(stage) ==
    CASE stage = "DS.CONFIRMED" -> <<1, 0>>
      [] stage = "DS.DEATH" -> <<2, 1>>

\* The first exception of a sequence of verifications, "" if there is none
FirstError(errors) ==
    IF \A i \in DOMAIN errors : errors[i] = "" THEN ""
    ELSE errors[CHOOSE i \in DOMAIN errors :
                   errors[i] # "" /\ \A j \in 1..(i - 1) : errors[j] = ""]

\* CaseInfo.get_info_item_for
get_info_item_for(field, stage, count) ==
    LET error == FirstError(<<verify(InfoField, field, FALSE),
                              verify(DiseaseStage, stage, FALSE),
                              verify(Counting, count, FALSE)>>)
    IN  IF error # "" THEN Raised(error)
        ELSE IF field = "IF.CASE_TYPE" THEN Returned(CASE_TYPES(stage, count))
        ELSE IF field = "IF.DASH_STYLE" THEN Returned(DASH_STYLES(stage))
        ELSE IF field = "IF.THRESHOLD" THEN Returned(THRESHOLDS(stage, count))
        ELSE Raised("StrictEnumError")

\* CaseInfo._get_case_type_groups_df: the index, the product of the stages
\* and the countings, and the row of a (stage, count) by field
CaseTypeGroupsIndex ==
    <<<<DiseaseStage[1], Counting[1]>>, <<DiseaseStage[1], Counting[2]>>,
      <<DiseaseStage[2], Counting[1]>>, <<DiseaseStage[2], Counting[2]>>>>

CaseTypeGroupsRow(key) ==
    [field \in Members(InfoField) |-> get_info_item_for(field, key[1], key[2]).rows]

\* .xs((stage, count), level=...): the keys of the index the pair selects
\* (slice(None), here Select.ALL, selects all of a level); no key is a
\* KeyError
CrossSection(stage, count) ==
    SelectSeq(CaseTypeGroupsIndex,
              LAMBDA key : /\ stage \in {"Select.ALL", key[1]}
                           /\ count \in {"Select.ALL", key[2]})

\* CaseInfo.get_info_items_for(*fields, stage, count, squeeze_rows,
\* squeeze_cols): a dataframe is the sequence of its rows, a row the sequence
\* of its values; a squeezed axis leaves its single element
get_info_items_for(fields, stage, count, squeeze_rows, squeeze_cols) ==
    LET error == FirstError([i \in DOMAIN fields |-> verify(InfoField, fields[i], FALSE)]
                            \o <<verify(DiseaseStage, stage, TRUE),
                                 verify(Counting, count, TRUE)>>)
        keys == CrossSection(stage, count)
        columns == IF fields = <<>> THEN InfoField ELSE fields
        info_df == [k \in DOMAIN keys |->
                      [c \in DOMAIN columns |-> CaseTypeGroupsRow(keys[k])[columns[c]]]]
        cols_squeezed == IF squeeze_cols /\ Len(fields) = 1
                         THEN [k \in DOMAIN keys |-> info_df[k][1]]
                         ELSE info_df
    IN  IF error # "" THEN Raised(error)
        ELSE IF Len(keys) = 0 THEN Raised("KeyError")
        ELSE IF squeeze_cols /\ fields = <<>> THEN Raised("TypeError")
        ELSE IF squeeze_rows /\ Len(cols_squeezed) = 1 THEN Returned(cols_squeezed[1])
        ELSE Returned(cols_squeezed)

---------------------------------------------------------------------------
(* read_in_data.py *)

\* Nullable values: pd.NA / NaT is <<>>, a value x is <<x>>
Null == <<>>
Some(x) == <<x>>

RECURSIVE GCD(_, _)
GCD(a, b) == IF b = 0 THEN a ELSE GCD(b, a % b)

\* A quotient of two integers, b > 0, in lowest terms
Fraction(a, b) ==
    LET g == GCD(IF a < 0 THEN -a ELSE a, b)
    IN  <<a \div g, b \div g>>

\* Variant: nothing is divided
DivideNot(x, pop) == x

\* Series / Int64 series: a masked (pd.NA) divisor gives NaN, the divisor 0
\* gives inf for a positive and NaN for a zero dividend (numpy, no error)
Divide(x, pop) ==
    IF IsNaN(x) \/ pop = Null THEN NaN
    ELSE IF pop[1] = 0 THEN (IF x[1] = 0 THEN NaN ELSE Inf)
    ELSE IF x[2] = 0 THEN x
    ELSE Fraction(x[1], x[2] * pop[1])

\* The .map({...}) for Columns.STAGE: NaN for a case type that is no key
StageOf(ctype) ==
    CASE ctype = CONFIRMED -> "CONFIRMED"
      [] ctype = DEATHS -> "DEATH"
      [] OTHER -> NA

\* Variant: the two per-capita case types swapped
PerCapitaCaseTypeSwapped(ctype) ==
    CASE ctype = CONFIRMED -> DEATHS_PER_CAPITA
      [] ctype = DEATHS -> CONFIRMED_PER_CAPITA
      [] OTHER -> ctype

\* Variant: no case type is remapped
PerCapitaCaseTypeUnmapped(ctype) == ctype

\* The .map({...}).fillna(...) for Columns.CASE_TYPE of the per-capita half
PerCapitaCaseType(ctype) ==
    CASE ctype = CONFIRMED -> CONFIRMED_PER_CAPITA
      [] ctype = DEATHS -> DEATHS_PER_CAPITA
      [] OTHER -> ctype

TotalCasesRow(r) ==
    [country |-> r.country, state |-> r.state, date |-> r.date,
     ctype |-> r.ctype, count |-> r.count, pop |-> r.pop,
     stage |-> StageOf(r.ctype), count_type |-> "TOTAL_CASES"]

PerCapitaRow(r) ==
    [country |-> r.country, state |-> r.state, date |-> r.date,
     ctype |-> PerCapitaCaseType(r.ctype), count |-> Divide(r.count, r.pop),
     pop |-> r.pop,
     stage |-> StageOf(r.ctype), count_type |-> "PER_CAPITA"]

\* Variant: the per-capita half first
append_percapita_first(d) ==
    [i \in DOMAIN d |-> PerCapitaRow(d[i])] \o [i \in DOMAIN d |-> TotalCasesRow(d[i])]

append_percapita_stage_count(d) ==
    [i \in DOMAIN d |-> TotalCasesRow(d[i])] \o [i \in DOMAIN d |-> PerCapitaRow(d[i])]

\* read(): df[IS_STATE] = df[STATE] != ""; df[LOCATION_NAME] = STATE where
\* IS_STATE, else COUNTRY
AssignIsStateAndLocation(d) ==
    [i \in DOMAIN d |->
        [country |-> d[i].country, state |-> d[i].state, date |-> d[i].date,
         ctype |-> d[i].ctype, count |-> d[i].count, pop |-> d[i].pop,
         stage |-> d[i].stage, count_type |-> d[i].count_type,
         is_state |-> d[i].state # "",
         loc |-> IF d[i].state # "" THEN d[i].state ELSE d[i].country]]

\* CaseInfo._THRESHOLDS joined on the case type (how="left"): NaN for a case
\* type that has no threshold
Threshold(ctype) ==
    CASE ctype = CONFIRMED -> Num(100)
      [] ctype = CONFIRMED_PER_CAPITA -> <<1, 100000>>
      [] ctype = DEATHS -> Num(25)
      [] ctype = DEATHS_PER_CAPITA -> <<1, 1000000>>
      [] OTHER -> NaN

\* CaseInfo.get_info_items_for(InfoField.THRESHOLD, InfoField.CASE_TYPE): a
\* row per (stage, count), in the order of MultiIndex.from_product
outbreak_thresholds ==
    LET info_df == get_info_items_for(<<"IF.THRESHOLD", "IF.CASE_TYPE">>,
                                      "Select.ALL", "Select.ALL", FALSE, TRUE).rows
    IN  [k \in DOMAIN info_df |->
            [ctype |-> info_df[k][2], threshold |-> info_df[k][1]]]

\* The rows of a sequence of tables, one table after the other
RECURSIVE Flatten(_)
Flatten(tables) ==
    IF tables = <<>> THEN <<>> ELSE Head(tables) \o Flatten(Tail(tables))

WithThreshold(r, threshold) ==
    [country |-> r.country, state |-> r.state, date |-> r.date,
     ctype |-> r.ctype, count |-> r.count, pop |-> r.pop,
     stage |-> r.stage, count_type |-> r.count_type,
     is_state |-> r.is_state, loc |-> r.loc, threshold |-> threshold]

\* df.merge(outbreak_thresholds, how="left", left_on=CASE_TYPE, right_on=
\* InfoField.CASE_TYPE): the rows of df in order, each once per row of
\* outbreak_thresholds of its case type, or once with NaN if there is none
MergeThresholds(d) ==
    Flatten([i \in DOMAIN d |->
        LET matches == SelectSeq(outbreak_thresholds, LAMBDA t : t.ctype = d[i].ctype)
        IN  IF Len(matches) = 0 THEN <<WithThreshold(d[i], NaN)>>
            ELSE [k \in DOMAIN matches |-> WithThreshold(d[i], matches[k].threshold)]])

\* outbreak_id_cols
OutbreakKey(r) == <<r.country, r.state, r.loc, r.ctype>>

\* Python's order on tuples of four strings
OutbreakKeyLt(a, b) ==
    \E k \in 1..4 : StrLt(a[k], b[k]) /\ \A j \in 1..(k - 1) : a[j] = b[j]

\* Variant: strictly above the threshold
ReachedThresholdStrict(r) ==
    Ge(r.count, r.threshold) /\ r.count # r.threshold

\* df[CASE_COUNT] >= df[THRESHOLD]
ReachedThreshold(r) == Ge(r.count, r.threshold)

\* Variant: no aggregation, a row per row that reached the threshold
outbreak_start_dates_not_grouped(d) ==
    LET reached == SelectSeq(d, ReachedThreshold)
    IN  [i \in DOMAIN reached |->
            [key |-> OutbreakKey(reached[i]), start |-> reached[i].date]]

\* df[CASE_COUNT >= THRESHOLD].groupby(outbreak_id_cols)[DATE].min(): a row
\* per key that has a row at its threshold, in the order of the keys
outbreak_start_dates(d) ==
    LET reached == SelectSeq(d, ReachedThreshold)
        keys == {OutbreakKey(reached[i]) : i \in DOMAIN reached}
        MinDate(key) ==
            LET dates == {reached[i].date : i \in {j \in DOMAIN reached :
                                                    OutbreakKey(reached[j]) = key}}
            IN  CHOOSE t \in dates : \A u \in dates : t <= u
    IN  [p \in 1..Cardinality(keys) |->
            LET key == CHOOSE k \in keys :
                          Cardinality({j \in keys : OutbreakKeyLt(j, k)}) = p - 1
            IN  [key |-> key, start |-> MinDate(key)]]

\* Variant: the start date minus the date
DaysSinceReversed(date, start) ==
    IF start = Null THEN NaN ELSE Fraction(start[1] - date, SecondsPerDay)

\* (DATE - OUTBREAK_START_DATE).dt.total_seconds() / 86400
DaysSince(date, start) ==
    IF start = Null THEN NaN ELSE Fraction(date - start[1], SecondsPerDay)

\* A row without the threshold column, with the two outbreak columns
WithOutbreakStart(r, start) ==
    [country |-> r.country, state |-> r.state, date |-> r.date,
     ctype |-> r.ctype, count |-> r.count, pop |-> r.pop,
     stage |-> r.stage, count_type |-> r.count_type,
     is_state |-> r.is_state, loc |-> r.loc,
     outbreak_start |-> start, days_since |-> DaysSince(r.date, start)]

\* df.merge(outbreak_start_dates, how="left", on=outbreak_id_cols), the
\* threshold columns dropped, then DAYS_SINCE_OUTBREAK: NaT and NaN for a row
\* whose key has no start date
MergeOutbreakStartDates(d, starts) ==
    Flatten([i \in DOMAIN d |->
        LET matches == SelectSeq(starts, LAMBDA g : g.key = OutbreakKey(d[i]))
        IN  IF Len(matches) = 0 THEN <<WithOutbreakStart(d[i], Null)>>
            ELSE [k \in DOMAIN matches |->
                    WithOutbreakStart(d[i], Some(matches[k].start))]])

get_df_with_outbreak_start_date_and_days_since(d) ==
    LET with_thresholds == MergeThresholds(d)
    IN  MergeOutbreakStartDates(with_thresholds, outbreak_start_dates(with_thresholds))

---------------------------------------------------------------------------
(* The tables the pipeline is run on *)

\* The timestamps pd.to_datetime gives a date column: midnights, in seconds
Day(k) == k * SecondsPerDay

Dates == {Day(k) : k \in 1..MaxDate}

\* The rows of the table get_full_dataset returns: a country, a state of
\* the USA of the same name, a province of China, and three rows
\* remove_extraneous_rows drops: a county of another state, the USA at
\* country level, and the USA under country code "US"
RawRows ==
    {RawRow("Georgia", NA, t, c[1], Num(c[2])) :
        t \in Dates, c \in {<<CONFIRMED, 90>>, <<CONFIRMED, 100>>, <<DEATHS, 90>>}}
    \cup {RawRow(USA, "GA", t, CONFIRMED, v) :
            t \in Dates, v \in {Num(90), Num(100)}}
    \cup {RawRow(CHINA, "Hubei", t, CONFIRMED, Num(100)) : t \in Dates}
    \cup {[RawRow(USA, "NY", Day(1), CONFIRMED, Num(100))
              EXCEPT !.county = "Kings County"],
          RawRow(USA, NA, Day(1), CONFIRMED, Num(100)),
          RawRow("US", NA, Day(1), CONFIRMED, Num(100))}

RowId(r) == <<r.country, r.state, r.ctype, r.date>>

\* At most one row per (country, state, case type, date)
UniqueRows(d) ==
    \A i, j \in DOMAIN d : RowId(d[i]) = RowId(d[j]) => i = j

---------------------------------------------------------------------------
(* The pipeline of case_tracker.py: get_df, then a top-n selection.        *)
(* df is the table the last step was given (get_df is given none: the     *)
(* table it returned), out what the step returned.                         *)

Init ==
    /\ pc = "raw"
    /\ \E len \in 0..MaxRows :
          \E d \in [1..len -> RawRows] :
              UniqueRows(d) /\ df = d /\ out = Returned(d)
    /\ n = 0
    /\ clock = <<>>

\* get_df, on the table get_full_dataset returned
GetDf ==
    /\ pc = "raw"
    /\ out' = Returned(clean_up(assign_location_names(
                  append_aggregates(remove_extraneous_rows(out.rows)))))
    /\ df' = out'.rows
    /\ pc' = "clean"
    /\ UNCHANGED <<n, clock>>

KeepOnlyNLargestLocations ==
    /\ pc = "clean"
    /\ \E k \in 1..MaxN :
        /\ n' = k
        /\ out' = keep_only_n_largest_locations(out.rows, k)
    /\ df' = out.rows
    /\ pc' = "top_n"
    /\ UNCHANGED clock

Next ==
    \/ GetDf
    \/ KeepOnlyNLargestLocations

Spec == Init /\ [][Next]_vars

---------------------------------------------------------------------------
(* get_df and the top-n selection on a table in which a country and a     *)
(* province of China have the same name                                    *)

NamesakeRows ==
    {RawRow(id[1], id[2], t, CONFIRMED, v) :
        id \in {<<"Hong Kong", NA>>, <<CHINA, "Hong Kong">>, <<"Iran", NA>>},
        t \in Dates, v \in {Num(90), Num(100)}}

InitNamesakes ==
    /\ pc = "raw"
    /\ \E len \in 0..MaxRows :
          \E d \in [1..len -> NamesakeRows] :
              UniqueRows(d) /\ df = d /\ out = Returned(d)
    /\ n = 0
    /\ clock = <<>>

SpecNamesakes == InitNamesakes /\ [][Next]_vars

---------------------------------------------------------------------------
(* plotting_utils.py: remove_empty_leading_dates, on the table of get_df   *)

\* .iloc[0] of the dates of the confirmed rows with a count > 0 raises
\* IndexError when there is none
remove_empty_leading_dates(d, count) ==
    IF verify(Counting, count, FALSE) # "" THEN Raised(verify(Counting, count, FALSE))
    ELSE LET case_type == get_info_item_for("IF.CASE_TYPE", "DS.CONFIRMED", count).rows
             nonzero == SelectSeq(d, LAMBDA r : /\ r.ctype = case_type
                                                /\ Ge(r.count, Num(0))
                                                /\ r.count # Num(0))
         IN  IF Len(nonzero) = 0 THEN Raised("IndexError")
             ELSE Returned(SelectSeq(d, LAMBDA r : r.date >= nonzero[1].date))

\* Two countries, with no case yet or with cases, on each date
LeadingRows ==
    {RawRow(c, NA, t, CONFIRMED, v) :
        c \in {"Iran", "Italy"}, t \in Dates, v \in {Num(0), Num(100)}}

InitLeading ==
    /\ pc = "raw"
    /\ \E len \in 0..MaxRows :
          \E d \in [1..len -> LeadingRows] :
              UniqueRows(d) /\ df = d /\ out = Returned(d)
    /\ n = 0
    /\ clock = <<>>

\* df = remove_empty_leading_dates(df, count)
RemoveEmptyLeadingDates ==
    /\ pc = "clean"
    /\ out' = remove_empty_leading_dates(out.rows, "C.TOTAL_CASES")
    /\ df' = out.rows
    /\ pc' = "leading"
    /\ UNCHANGED <<n, clock>>

NextLeading == GetDf \/ RemoveEmptyLeadingDates

SpecLeading == InitLeading /\ [][NextLeading]_vars

---------------------------------------------------------------------------
(* periodically_fetch_current_states.py: main calls request_file_and_save  *)
(* in turn for the two URLs. df is the list of the files of DATA_PATH, n   *)
(* the attempts of the current call, out.rows the response r (Null while   *)
(* r is unbound)                                                           *)

\* for _ in range(100)
MaxAttempts == 100

InitFetch ==
    /\ pc = "main"
    /\ df = <<>>
    /\ n = 0
    /\ out = Returned(Null)
    /\ clock = <<>>

\* main: request_file_and_save(s, URL, file_basename=...), for the two URLs
\* alternately
RequestFileAndSave ==
    /\ pc = "main"
    /\ Len(df) < MaxCalls
    /\ pc' = "attempt"
    /\ n' = 0
    /\ out' = Returned(Null)
    /\ UNCHANGED <<df, clock>>

\* One pass of the loop: session.get returns and the loop is left, or it
\* raises RequestException, the call sleeps and the loop goes on, if any
\* pass is left
Get ==
    /\ pc = "attempt"
    /\ n < MaxAttempts
    /\ n' = n + 1
    /\ \/ \E text \in {"state,positive", "country,confirmed"} :
            /\ out' = Returned(Some(text))
            /\ pc' = "save"
       \/ /\ out' = out
          /\ pc' = IF n' < MaxAttempts THEN "attempt" ELSE "save"
    /\ UNCHANGED <<df, clock>>

\* After the loop: open(DATA_PATH / filename, "w") creates the file, then
\* f.write(r.text) fills it, or raises UnboundLocalError if no pass bound r;
\* the exception leaves main
Save ==
    /\ pc = "save"
    /\ LET file_basename == IF Len(df) % 2 = 0 THEN "states_current"
                            ELSE "world_historical"
           filename == <<file_basename, Len(df) + 1>>
       IN  IF out.rows = Null
           THEN /\ df' = Append(df, [name |-> filename, text |-> ""])
                /\ out' = Raised("UnboundLocalError")
                /\ pc' = "crashed"
           ELSE /\ df' = Append(df, [name |-> filename, text |-> out.rows[1]])
                /\ out' = out
                /\ pc' = "main"
    /\ UNCHANGED <<n, clock>>

NextFetch ==
    \/ RequestFileAndSave
    \/ Get
    \/ Save

SpecFetch == InitFetch /\ [][NextFetch]_vars

---------------------------------------------------------------------------
(* case_tracker.py: get_full_dataset. df is the frame of the calls: the    *)
(* origin asked for, the origin of the current (possibly nested) call and  *)
(* its depth, the format, the local file, how reading it ended, and the    *)
(* number of reads from the web; out is what the call returns or raises    *)

\* Variant: only USE_LOCAL_UNCONDITIONALLY tries the local file
should_try_to_use_local_unconditional_only(data_origin) ==
    data_origin = "USE_LOCAL_UNCONDITIONALLY"

\* DataOrigin.should_try_to_use_local
should_try_to_use_local(data_origin) ==
    data_origin \in {"USE_LOCAL_UNCONDITIONALLY",
                     "USE_LOCAL_IF_EXISTS_ELSE_FETCH_FROM_WEB"}

\* The local file is missing, is not readable (an OSError), is no table (an
\* error of the parser, a ValueError), or holds an earlier table
InitOrigin ==
    /\ pc = "call"
    /\ \E origin \in {"USE_LOCAL_UNCONDITIONALLY",
                      "USE_LOCAL_IF_EXISTS_ELSE_FETCH_FROM_WEB",
                      "FETCH_FROM_WEB_UNCONDITIONALLY"},
          fmt \in {".csv", ".parquet"},
          local \in {Null, Some("unreadable"), Some("garbled"),
                     Some("table 1"), Some("table 2")} :
            df = [asked |-> origin, data_origin |-> origin, depth |-> 1,
                  fmt |-> fmt, local |-> local, read |-> "", fetched |-> 0]
    /\ out = Returned(Null)
    /\ n = 0
    /\ clock = <<>>

\* The branch of a call that tries the local file: the table is returned;
\* FileNotFoundError or another IOError is raised again or answered by the
\* nested call get_full_dataset(FETCH_FROM_WEB_UNCONDITIONALLY); any other
\* exception leaves the call
ReadLocal ==
    /\ pc = "call"
    /\ should_try_to_use_local(df.data_origin)
    /\ LET error == CASE df.local = Null -> "FileNotFoundError"
                      [] df.local = Some("unreadable") -> "PermissionError"
                      [] df.local = Some("garbled") -> "ParserError"
                      [] OTHER -> ""
       IN  IF error = ""
           THEN /\ df' = [df EXCEPT !.read = "read"]
                /\ out' = Returned(df.local)
                /\ pc' = "done"
           ELSE IF /\ error \in {"FileNotFoundError", "PermissionError"}
                   /\ df.data_origin # "USE_LOCAL_UNCONDITIONALLY"
           THEN /\ df' = [df EXCEPT !.read = error, !.depth = @ + 1,
                                    !.data_origin = "FETCH_FROM_WEB_UNCONDITIONALLY"]
                /\ out' = out
                /\ pc' = "call"
           ELSE /\ df' = [df EXCEPT !.read = error]
                /\ out' = Raised(error)
                /\ pc' = "done"
    /\ UNCHANGED <<n, clock>>

\* The other branch, its first statement:
\* df = SaveFormats.CSV.read(url, from_web=True) returns a table or raises
FetchFromWeb ==
    /\ pc = "call"
    /\ ~should_try_to_use_local(df.data_origin)
    /\ df' = [df EXCEPT !.fetched = @ + 1]
    /\ \/ /\ out' = Raised("URLError")
          /\ pc' = "done"
       \/ /\ \E table \in {"table 1", "table 2", "table 3"} :
                out' = Returned(Some(table))
          /\ pc' = "fetched"
    /\ UNCHANGED <<n, clock>>

\* fmt.save(df, local_data_path), which raises on the file that is not
\* accessible, and return df
SaveLocal ==
    /\ pc = "fetched"
    /\ IF df.local = Some("unreadable")
       THEN /\ out' = Raised("PermissionError")
            /\ df' = df
       ELSE /\ out' = out
            /\ df' = [df EXCEPT !.local = out.rows]
    /\ pc' = "done"
    /\ UNCHANGED <<n, clock>>

NextOrigin == ReadLocal \/ FetchFromWeb \/ SaveLocal

SpecOrigin == InitOrigin /\ [][NextOrigin]_vars

---------------------------------------------------------------------------
(* data_to_json.py: save_file_with_digest. A file of the data directory is *)
(* [stub, digest, rest]: its name is the stub with the digest in place of  *)
(* {}, followed by rest. df is the frame of the last call: the directory   *)
(* before it and now, its arguments and the name of the file it wrote; n   *)
(* counts the calls                                                        *)

\* Variant: the file found in the directory is deleted whatever its name
UnlinksExistingAlways(existing_data_file_name, new_data_file_name) ==
    existing_data_file_name # Null

\* hashlib.sha1 of json.dumps(data).encode(), as hexdigest
hexdigest(data_str) ==
    CASE data_str = "{}" -> "bf21a9e8fbc5a3846fb05b4fa0859e0917b2202f"
      [] data_str = "{\"usa\": {}}" -> "8f3408069575c19a3b518bae39745d33ea766f8a"

\* existing_data_file_name is not None
\* and existing_data_file_name != new_data_file_name
UnlinksExisting(existing_data_file_name, new_data_file_name) ==
    /\ existing_data_file_name # Null
    /\ existing_data_file_name # Some(new_data_file_name)

\* The data directory holds any files left by earlier runs
InitDigest ==
    /\ pc = "main"
    /\ \E dir \in SUBSET [stub : {"geo_data-{}.json", "covid_data-{}.json"},
                          digest : {hexdigest("{}"), hexdigest("{\"usa\": {}}")},
                          rest : {"", ".bak"}] :
          df = [before |-> dir, dir |-> dir, filename_stub |-> "",
                data |-> "", new_data_file_name |-> Null]
    /\ n = 0
    /\ out = Returned(Null)
    /\ clock = <<>>

\* save_file_with_digest(filename_stub, data): re.match finds the first file
\* of DATA_DIR.iterdir(), in the order of the directory, whose name starts
\* with the stub filled with 40 hexadecimal digits; the new file is written;
\* plots.ts is read and rewritten, or is not there; the file found is deleted
SaveFileWithDigest ==
    /\ pc = "main"
    /\ n < MaxCalls
    /\ \E filename_stub \in {"geo_data-{}.json", "covid_data-{}.json"},
          data \in {"{}", "{\"usa\": {}}"},
          plots_ts \in BOOLEAN :
        LET matching == {f \in df.dir : f.stub = filename_stub}
            new_data_file_name ==
                [stub |-> filename_stub, digest |-> hexdigest(data), rest |-> ""]
            written == df.dir \cup {new_data_file_name}
        IN  \E existing_data_file_name \in
                    IF matching = {} THEN {Null} ELSE {Some(f) : f \in matching} :
              /\ df' = [before |-> df.dir,
                        dir |-> IF /\ plots_ts
                                   /\ UnlinksExisting(existing_data_file_name,
                                                      new_data_file_name)
                                THEN written \ {existing_data_file_name[1]}
                                ELSE written,
                        filename_stub |-> filename_stub,
                        data |-> data,
                        new_data_file_name |-> Some(new_data_file_name)]
              /\ out' = IF plots_ts THEN Returned(Null)
                        ELSE Raised("FileNotFoundError")
    /\ n' = n + 1
    /\ UNCHANGED <<pc, clock>>

NextDigest == SaveFileWithDigest

SpecDigest == InitDigest /\ [][NextDigest]_vars

---------------------------------------------------------------------------
(* data_to_json.py: data_to_json, the outbreak start indices. df is the    *)
(* data table, a row being [code, values], values the row's number in each *)
(* case-type column; out.rows is d: for each code, its "outbreak_cutoffs"  *)

\* int((g[col] < outbreak_cutoffs[ct]).sum()): the rows of g whose value in
\* col is below the cutoff of ct; a comparison with NaN is False
outbreak_start_idx(g, col, ct) ==
    LET outbreak_cutoffs == [k \in {CONFIRMED, CONFIRMED_PER_CAPITA,
                                    DEATHS, DEATHS_PER_CAPITA} |->
            CASE k = CONFIRMED -> Num(100)
              [] k = CONFIRMED_PER_CAPITA -> Fraction(1, 100000)
              [] k = DEATHS -> Num(25)
              [] k = DEATHS_PER_CAPITA -> Fraction(25, 10000000)]
    IN  Cardinality({i \in DOMAIN g :
            /\ ~IsNaN(g[i].values[col])
            /\ g[i].values[col][1] * outbreak_cutoffs[ct][2]
                  < outbreak_cutoffs[ct][1] * g[i].values[col][2]})

\* max_moving_avg_days = 7
max_moving_avg_days == 7

\* The statistics of a frame that data_to_json converts with int(): for a
\* case type, the least positive value of the column, and the least of the
\* 7-row rolling means of the day-over-day differences (negative ones set
\* to 0) that are at least 0.9 / 7 of the least positive difference. min()
\* of an empty selection is NaN: the result is whether one of them is NaN
min_nonzero_is_nan(frame, ct) ==
    LET Positive(x) == ~IsNaN(x) /\ x[1] > 0
        value(i) == frame[i].values[ct]
        dodd_diff(i) ==
            IF i = 1 \/ IsNaN(value(i)) \/ IsNaN(value(i - 1)) THEN Num(0)
            ELSE LET num == value(i)[1] * value(i - 1)[2]
                              - value(i - 1)[1] * value(i)[2]
                 IN  IF num <= 0 THEN Num(0)
                     ELSE Fraction(num, value(i)[2] * value(i - 1)[2])
        RECURSIVE Total(_, _)
        Total(i, k) ==
            IF k = 0 THEN Num(0)
            ELSE LET rest == Total(i - 1, k - 1)
                 IN  Fraction(dodd_diff(i)[1] * rest[2] + rest[1] * dodd_diff(i)[2],
                              dodd_diff(i)[2] * rest[2])
        moving_avg(i) ==
            Fraction(Total(i, max_moving_avg_days)[1],
                     Total(i, max_moving_avg_days)[2] * max_moving_avg_days)
        positive == {i \in DOMAIN frame : Positive(dodd_diff(i))}
        min_nonzero ==
            IF positive = {} THEN NaN
            ELSE dodd_diff(CHOOSE i \in positive :
                              \A j \in positive : Ge(dodd_diff(j), dodd_diff(i)))
    IN  \/ \A i \in DOMAIN frame : ~Positive(value(i))
        \/ IsNaN(min_nonzero)
        \/ \A i \in max_moving_avg_days..Len(frame) :
              ~Ge(moving_avg(i),
                  Fraction(min_nonzero[1] * 9,
                           min_nonzero[2] * max_moving_avg_days * 10))

\* pd.read_csv(Paths.DATA_TABLE): for each location it holds, a state of the
\* USA and two countries, the rows of its days in the order of the dates,
\* MaxRows days or a week; the counts step up on one of the days; deaths
\* are reported or not
InitJson ==
    /\ pc = "table"
    /\ \E series \in [{"NY", "FR", "IR"} ->
                        {Null} \cup ({MaxRows, max_moving_avg_days}
                                        \X (1..(MaxRows + 1)) \X BOOLEAN)] :
        LET Rows(code) ==
                IF series[code] = Null THEN <<>>
                ELSE [i \in 1..series[code][1] |->
                        LET cases == IF i < series[code][2] THEN 50 ELSE 150
                            deaths == IF ~series[code][3] THEN NaN
                                      ELSE IF i < series[code][2] THEN Num(10)
                                      ELSE Num(30)
                        IN  [code |-> code, is_state |-> code = "NY",
                             values |->
                                [k \in {CONFIRMED, CONFIRMED_PER_CAPITA,
                                        DEATHS, DEATHS_PER_CAPITA} |->
                                    CASE k = CONFIRMED -> Num(cases)
                                      [] k = CONFIRMED_PER_CAPITA ->
                                            Fraction(cases, 10000000)
                                      [] k = DEATHS -> deaths
                                      [] k = DEATHS_PER_CAPITA ->
                                            IF IsNaN(deaths) THEN NaN
                                            ELSE Fraction(deaths[1], 10000000)]]]
        IN  df = Rows("NY") \o Rows("FR") \o Rows("IR")
    /\ n = 0
    /\ out = Returned(<<>>)
    /\ clock = <<>>

\* data_to_json up to the two calls of save_file_with_digest: the per-capita
\* columns are multiplied by 100000; for the frame of the states, then the
\* frame of the countries, int(min_val) raises ValueError on a NaN; after
\* the loops `for ct in CASE_TYPES` the name ct is bound to the last case
\* type; for each code and each column the start index is counted against
\* outbreak_cutoffs[ct]
DataToJson ==
    /\ pc = "table"
    /\ LET scaled == [i \in DOMAIN df |->
                [code |-> df[i].code,
                 is_state |-> df[i].is_state,
                 values |-> [k \in DOMAIN df[i].values |->
                    IF k \in {CONFIRMED_PER_CAPITA, DEATHS_PER_CAPITA}
                          /\ ~IsNaN(df[i].values[k])
                    THEN Fraction(df[i].values[k][1] * 100000, df[i].values[k][2])
                    ELSE df[i].values[k]]]]
           usa_df == SelectSeq(scaled, LAMBDA r : r.is_state)
           countries_df == SelectSeq(scaled, LAMBDA r : ~r.is_state)
           ct == DEATHS_PER_CAPITA
       IN  /\ df' = scaled
           /\ out' =
                IF \E k \in {CONFIRMED, CONFIRMED_PER_CAPITA, DEATHS, DEATHS_PER_CAPITA} :
                      \/ min_nonzero_is_nan(usa_df, k)
                      \/ min_nonzero_is_nan(countries_df, k)
                THEN Raised("ValueError")
                ELSE Returned(
                    [code \in {scaled[i].code : i \in DOMAIN scaled} |->
                        [col \in {CONFIRMED, CONFIRMED_PER_CAPITA,
                                  DEATHS, DEATHS_PER_CAPITA} |->
                            outbreak_start_idx(
                                SelectSeq(scaled, LAMBDA r : r.code = code),
                                col, ct)]])
    /\ pc' = "json"
    /\ UNCHANGED <<n, clock>>

NextJson == DataToJson

SpecJson == InitJson /\ [][NextJson]_vars

---------------------------------------------------------------------------
(* get_df, then one of the three views of case_tracker.py, on tables of     *)
(* countries, aggregates, states of the USA and provinces of China          *)

\* (country, state code, case type) of the rows: two countries (one with deaths),
\* a state of the USA and a province of China
ViewKeys ==
    {<<"Italy", NA, CONFIRMED>>, <<"Italy", NA, DEATHS>>,
     <<"Iran", NA, CONFIRMED>>,
     <<USA, "NY", CONFIRMED>>, <<CHINA, "Hubei", CONFIRMED>>}

ViewRows ==
    {RawRow(k[1], k[2], Day(1), k[3], v) :
        k \in ViewKeys, v \in {Num(90), Num(100)}}

InitViews ==
    /\ pc = "raw"
    /\ \E len \in 0..MaxRows :
          \E d \in [1..len -> ViewRows] :
              UniqueRows(d) /\ df = d /\ out = Returned(d)
    /\ n = 0
    /\ clock = <<>>

\* get_countries_df(df, n), df the table of get_df or the table of read()
GetCountriesDf ==
    /\ pc \in {"clean", "annotated"}
    /\ \E k \in 1..MaxN :
        /\ n' = k
        /\ out' = get_countries_df(out.rows, k)
    /\ df' = out.rows
    /\ pc' = "countries"
    /\ UNCHANGED clock

GetUsaStatesDf ==
    /\ pc = "clean"
    /\ \E k \in 1..MaxN :
        /\ n' = k
        /\ out' = get_usa_states_df(out.rows, k)
    /\ df' = out.rows
    /\ pc' = "usa_states"
    /\ UNCHANGED clock

GetChineseProvincesDf ==
    /\ pc = "clean"
    /\ \E k \in 1..MaxN :
        /\ n' = k
        /\ out' = get_chinese_provinces_df(out.rows, k)
    /\ df' = out.rows
    /\ pc' = "chinese_provinces"
    /\ UNCHANGED clock

NextViews ==
    \/ GetDf
    \/ KeepOnlyNLargestLocations
    \/ GetCountriesDf
    \/ GetUsaStatesDf
    \/ GetChineseProvincesDf

SpecViews == InitViews /\ [][NextViews]_vars

---------------------------------------------------------------------------
(* get_df and the views on tables of four countries, one confirmed row    *)
(* each                                                                    *)

RankedCountries == {"France", "Iran", "Italy", "Spain"}

RankedRows ==
    {RawRow(c, NA, t, CONFIRMED, v) :
        c \in RankedCountries, t \in Dates, v \in {Num(80), Num(90), Num(100)}}

InitRanked ==
    /\ pc = "raw"
    /\ \E d \in [1..Cardinality(RankedCountries) -> RankedRows] :
          /\ \A i, j \in DOMAIN d : d[i].country = d[j].country => i = j
          /\ df = d
          /\ out = Returned(d)
    /\ n = 0
    /\ clock = <<>>

SpecRanked == InitRanked /\ [][NextViews]_vars

---------------------------------------------------------------------------
(* read_in_old_data.py: get_old_data, from the concatenated time series on  *)

\* Series.str.contains(","), on the names of the tables below
ContainsComma(s) == s \in {"New York City, NY"}

\* Convert to new case type names
OldCaseTypeReplacements(t) ==
    CASE t = "Confirmed" -> CONFIRMED
      [] t = "Deaths" -> DEATHS
      [] t = "Recovered" -> RECOVERED
      [] OTHER -> t

\* .map({...}).fillna(df[COUNTRY])
OldCountryMap(c) ==
    CASE c = "US" -> USA
      [] c = "Korea, South" -> "South Korea"
      [] c = "Georgia" -> "Georgia (country)"
      [] OTHER -> c

\* Rows of cities are removed, then the regions of countries other than
\* Locations.USA and Locations.CHINA unless named like their country; the
\* case types and the countries are renamed, IS_STATE is assigned, and the
\* string columns the table does not have (LOCATION_NAME) are all pd.NA
get_old_data(d) ==
    LET no_cities == SelectSeq(d, LAMBDA r : r.state = NA \/ ~ContainsComma(r.state))
        kept == SelectSeq(no_cities, LAMBDA r : \/ r.country \in {USA, CHINA}
                                                \/ r.state = r.country
                                                \/ r.state = NA)
    IN  [i \in DOMAIN kept |->
            LET country == OldCountryMap(kept[i].country)
            IN  [country |-> country,
                 state |-> kept[i].state,
                 date |-> kept[i].date,
                 ctype |-> OldCaseTypeReplacements(kept[i].ctype),
                 count |-> kept[i].count,
                 is_state |-> kept[i].state # NA /\ kept[i].state # country,
                 loc |-> NA]]

\* (Country/Region, Province/State) of the time series: countries, a country
\* whose row names it as its own province, a province of China, a state and a
\* city of the USA, and a region of another country
OldIds ==
    {<<"France", "France">>, <<"Georgia", NA>>, <<"Korea, South", NA>>,
     <<CHINA, "Hubei">>, <<"US", NA>>, <<"US", "New York City, NY">>,
     <<"United Kingdom", "Gibraltar">>}

\* case_type.title() of the names of the files
OldCaseTypes == {"Confirmed", "Deaths"}

OldRows ==
    {[country |-> id[1], state |-> id[2], date |-> Day(1), ctype |-> t,
      count |-> Num(100)] : id \in OldIds, t \in OldCaseTypes}

InitOld ==
    /\ pc = "concatenated"
    /\ \E len \in 0..MaxRows :
          \E d \in [1..len -> OldRows] :
              UniqueRows(d) /\ df = d /\ out = Returned(d)
    /\ n = 0
    /\ clock = <<>>

GetOldData ==
    /\ pc = "concatenated"
    /\ out' = Returned(get_old_data(out.rows))
    /\ df' = out.rows
    /\ pc' = "old"
    /\ UNCHANGED <<n, clock>>

NextOld == GetOldData

SpecOld == InitOld /\ [][NextOld]_vars

---------------------------------------------------------------------------
(* The tail of SaveFormats.read: the per-capita expansion, then the         *)
(* location columns and the outbreak annotation.                            *)

\* (country, state) of the rows read() concatenates: the rows of states_df,
\* then those of countries_df (whose state is "")
ReadIds == <<<<USA, "New York">>, <<"Italy", "">>>>

\* The case types in the order melt() stacks them, and a legacy case type
\* that has neither a per-capita counterpart nor a threshold
ReadCaseTypes == <<CONFIRMED, DEATHS, RECOVERED>>

\* Counts (int) below and at the threshold of the case type
ReadCounts(t) ==
    CASE ReadCaseTypes[t] = CONFIRMED -> {Num(0), Num(100)}
      [] ReadCaseTypes[t] = DEATHS -> {Num(0), Num(25)}
      [] OTHER -> {Num(100)}

\* Column POPULATION (Int64): missing from the population table, or its entry
Populations == {Null, Some(0), Some(10000000)}

\* A row is identified by <<identity, case type, day>>
ReadKeys == (DOMAIN ReadIds) \X (DOMAIN ReadCaseTypes) \X (1..MaxDate)

\* The order of the concatenation: identity, then case type; the days of
\* one such block are in the order of the CSV, ascending or descending here
ReadKeyLt(a, b, descending) ==
    \/ a[1] < b[1]
    \/ a[1] = b[1] /\ a[2] < b[2]
    \/ a[1] = b[1] /\ a[2] = b[2] /\ (IF descending THEN a[3] > b[3] ELSE a[3] < b[3])

ReadTable(keys, descending, count, pop) ==
    [i \in 1..Cardinality(keys) |->
        LET k == CHOOSE x \in keys :
                    Cardinality({y \in keys : ReadKeyLt(y, x, descending)}) = i - 1
        IN  [country |-> ReadIds[k[1]][1], state |-> ReadIds[k[1]][2],
             date |-> Day(k[3]), ctype |-> ReadCaseTypes[k[2]],
             count |-> count[k], pop |-> pop[k[1]]]]

InitRead ==
    /\ pc = "read"
    /\ \E keys \in SUBSET ReadKeys :
          /\ Cardinality(keys) <= MaxRows
          /\ \E descending \in BOOLEAN :
             \E pop \in [DOMAIN ReadIds -> Populations] :
             \E count \in [keys -> UNION {ReadCounts(t) : t \in DOMAIN ReadCaseTypes}] :
                /\ \A k \in keys : count[k] \in ReadCounts(k[2])
                /\ df = ReadTable(keys, descending, count, pop)
                /\ out = Returned(df)
    /\ n = 0
    /\ clock = <<>>

\* df = self.append_percapita_stage_count(df)
AppendPercapitaStageCount ==
    /\ pc = "read"
    /\ out' = Returned(append_percapita_stage_count(out.rows))
    /\ df' = out.rows
    /\ pc' = "expanded"
    /\ UNCHANGED <<n, clock>>

\* The rest of read(): IS_STATE and LOCATION_NAME are assigned, then
\* df = self.get_df_with_outbreak_start_date_and_days_since(df)
GetDfWithOutbreakStartDateAndDaysSince ==
    /\ pc = "expanded"
    /\ df' = AssignIsStateAndLocation(out.rows)
    /\ out' = Returned(get_df_with_outbreak_start_date_and_days_since(df'))
    /\ pc' = "annotated"
    /\ UNCHANGED <<n, clock>>

NextRead ==
    \/ AppendPercapitaStageCount
    \/ GetDfWithOutbreakStartDateAndDaysSince

SpecRead == InitRead /\ [][NextRead]_vars

---------------------------------------------------------------------------
(* SaveFormats._adjust_dates on a column of dates *)

\* The calendar date strftime("%Y%m%d") prints, as a number of days
CalendarDate(t) == t \div SecondsPerDay

\* Variant: a day is added to every date, today's too
adjust_dates_all_shifted(date_col, now_compared, now_assigned) ==
    [i \in DOMAIN date_col |-> date_col[i] + SecondsPerDay]

\* Variant: the day is subtracted from the dates that are not today's
adjust_dates_shifted_back(date_col, now_compared, now_assigned) ==
    [i \in DOMAIN date_col |->
        IF CalendarDate(date_col[i]) = CalendarDate(now_compared)
        THEN now_assigned
        ELSE date_col[i] - SecondsPerDay]

\* _adjust_dates; now_compared and now_assigned are what the two calls of
\* pd.Timestamp.now() return
adjust_dates(date_col, now_compared, now_assigned) ==
    LET is_todays_date ==
            [i \in DOMAIN date_col |->
                CalendarDate(date_col[i]) = CalendarDate(now_compared)]
    IN  [i \in DOMAIN date_col |->
            IF is_todays_date[i] THEN now_assigned
            ELSE date_col[i] + SecondsPerDay]

\* Variant: the column is adjusted in place
ColumnAfterAdjustInPlace(date_col, adjusted) == adjusted

\* The caller's column after the call: date_col = date_col.copy() leaves it
\* as it was
ColumnAfterAdjust(date_col, adjusted) == date_col

\* Half a day, in seconds
HalfDay == 43200

\* What the clock can show: midnight or noon of a day of the data, or of the
\* day after the last one
ClockReadings == {Day(k) + s : k \in 1..(MaxDate + 1), s \in {0, HalfDay}}

\* The DATE column pd.to_datetime returns
InitDates ==
    /\ pc = "dates"
    /\ \E len \in 0..MaxRows : df \in [1..len -> Dates]
    /\ out = Returned(df)
    /\ n = 0
    /\ clock = <<>>

\* df[Columns.DATE] = self._adjust_dates(df[Columns.DATE]); the clock does not
\* go back between its two readings
AdjustDates ==
    /\ pc = "dates"
    /\ \E now_compared, now_assigned \in ClockReadings :
          /\ now_compared <= now_assigned
          /\ clock' = <<now_compared, now_assigned>>
          /\ out' = Returned(adjust_dates(out.rows, now_compared, now_assigned))
    /\ df' = ColumnAfterAdjust(out.rows, out'.rows)
    /\ pc' = "adjusted"
    /\ UNCHANGED n

NextDates == AdjustDates

SpecDates == InitDates /\ [][NextDates]_vars

---------------------------------------------------------------------------
(* The lookups of CaseInfo, called with members of any of the enums *)

Arguments ==
    Members(InfoField) \cup Members(DiseaseStage) \cup Members(Counting)
        \cup Members(Select)

\* What is passed as a field of get_info_items_for
FieldArguments == {"IF.CASE_TYPE", "IF.THRESHOLD", "Select.ALL", "DS.DEATH"}

InitInfo ==
    /\ pc = "lookup"
    /\ df = <<>>
    /\ out = Returned(<<>>)
    /\ n = 0
    /\ clock = <<>>

\* CaseInfo.get_info_item_for(field, stage=stage, count=count)
GetInfoItemFor ==
    /\ pc = "lookup"
    /\ \E field, stage, count \in Arguments :
          /\ df' = [fields |-> <<field>>, stage |-> stage, count |-> count,
                    squeeze_rows |-> FALSE, squeeze_cols |-> FALSE]
          /\ out' = get_info_item_for(field, stage, count)
    /\ pc' = "item"
    /\ UNCHANGED <<n, clock>>

\* CaseInfo.get_info_items_for(*fields, stage=stage, count=count,
\* squeeze_rows=squeeze_rows, squeeze_cols=squeeze_cols)
GetInfoItemsFor ==
    /\ pc = "lookup"
    /\ \E len \in 0..MaxFields :
       \E fields \in [1..len -> FieldArguments] :
       \E stage, count \in Arguments :
       \E squeeze_rows, squeeze_cols \in BOOLEAN :
          /\ df' = [fields |-> fields, stage |-> stage, count |-> count,
                    squeeze_rows |-> squeeze_rows, squeeze_cols |-> squeeze_cols]
          /\ out' = get_info_items_for(fields, stage, count, squeeze_rows, squeeze_cols)
    /\ pc' = "items"
    /\ UNCHANGED <<n, clock>>

NextInfo ==
    \/ GetInfoItemFor
    \/ GetInfoItemsFor

SpecInfo == InitInfo /\ [][NextInfo]_vars

---------------------------------------------------------------------------
(* What the claims speak of, stated without the code's own steps *)

HasConfirmed(d, loc) ==
    \E i \in DOMAIN d : d[i].loc = loc /\ d[i].ctype = CONFIRMED

\* The confirmed count of a location at its most recent date
CurrentConfirmed(d, loc) ==
    LET rows == {i \in DOMAIN d : d[i].loc = loc /\ d[i].ctype = CONFIRMED}
        latest == CHOOSE i \in rows : \A j \in rows : d[j].date <= d[i].date
    IN  d[latest].count

ValuedLocations(d) ==
    {loc \in LocationNames(d) :
        HasConfirmed(d, loc) /\ ~IsNaN(CurrentConfirmed(d, loc))}

AtLeast(d, v) == {loc \in ValuedLocations(d) : Ge(CurrentConfirmed(d, loc), v)}

Above(d, v) == {loc \in ValuedLocations(d) : ~Ge(v, CurrentConfirmed(d, loc))}

\* v is the minimum of the k largest current confirmed values: fewer than k
\* locations lie above it, and k lie at or above it (or all of them do)
IsCutoff(d, k, v) ==
    /\ \E loc \in ValuedLocations(d) : CurrentConfirmed(d, loc) = v
    /\ Cardinality(Above(d, v)) < k
    /\ \/ Cardinality(AtLeast(d, v)) >= k
       \/ AtLeast(d, v) = ValuedLocations(d)

Retained == LocationNames(out.rows)

\* C1: whenever keep_only_n_largest_locations(T, N) returns on a cleaned
\* table T, it retains a location if and only if the location's current
\* confirmed value is >= the minimum of the N largest current confirmed
\* values; the locations tied at that cutoff are all retained.
C1_RetainedIffAtLeastCutoff ==
    (pc = "top_n" /\ out.err = "") =>
        \A loc \in LocationNames(df) :
            loc \in Retained <=>
                \E v \in {CurrentConfirmed(df, l) : l \in ValuedLocations(df)} :
                    IsCutoff(df, n, v) /\ Ge(CurrentConfirmed(df, loc), v)

\* A call that retained more than N locations and dropped another
C1_Witness ==
    /\ pc = "top_n"
    /\ out.err = ""
    /\ Cardinality(Retained) > n
    /\ Retained # LocationNames(df)

\* C3, as claimed: with N larger than the number of locations of the table
\* the filter does not raise and returns every location.
C3_LargeNReturnsAll ==
    (pc = "top_n" /\ n > Cardinality(LocationNames(df))) =>
        /\ out.err = ""
        /\ Retained = LocationNames(df)

\* C9: a location whose current confirmed value is NaN is never retained.
C9_NaNNeverRetained ==
    pc = "top_n" =>
        \A loc \in LocationNames(df) :
            (HasConfirmed(df, loc) /\ IsNaN(CurrentConfirmed(df, loc)))
                => loc \notin Retained

\* N at least the number of locations, one of them NaN, the others retained
C9_Witness ==
    /\ pc = "top_n"
    /\ out.err = ""
    /\ n >= Cardinality(LocationNames(df))
    /\ \E loc \in LocationNames(df) :
          /\ HasConfirmed(df, loc)
          /\ IsNaN(CurrentConfirmed(df, loc))
          /\ Retained = LocationNames(df) \ {loc}
          /\ Retained # {}

\* The number of locations of d whose current confirmed value is v
NumberAt(d, v) ==
    Cardinality({loc \in ValuedLocations(d) : CurrentConfirmed(d, loc) = v})

\* Four locations with current confirmed values 100, 100, 90 and 80
Ranked_100_100_90_80(d) ==
    /\ Cardinality(LocationNames(d)) = 4
    /\ NumberAt(d, Num(100)) = 2
    /\ NumberAt(d, Num(90)) = 1
    /\ NumberAt(d, Num(80)) = 1

\* C2, as claimed: on four locations with current confirmed values 100, 100,
\* 90 and 80 the filter, called with N = 2 by the countries view, returns 3
\* locations.
C2_ReturnsThree ==
    (pc = "countries" /\ n = 2 /\ Ranked_100_100_90_80(CountriesRows(df))) =>
        (out.err = "" /\ Cardinality(Retained) = 3)

\* C2, amended: on that table the filter called with N = 2 returns exactly
\* the 2 locations at 100 (the cutoff is 100, and 90 < 100).
C2_ReturnsTheTwoAtCutoff ==
    (pc = "countries" /\ n = 2 /\ Ranked_100_100_90_80(CountriesRows(df))) =>
        /\ out.err = ""
        /\ Cardinality(Retained) = 2
        /\ \A loc \in Retained : CurrentConfirmed(df, loc) = Num(100)

C2_Witness ==
    /\ pc = "countries"
    /\ n = 2
    /\ Ranked_100_100_90_80(CountriesRows(df))
    /\ Len(out.rows) = 2

\* (location_name, date, case_type) as numbers
SortKey(r) == <<StrRank(r.loc), r.date, StrRank(r.ctype)>>

LexLeq(a, b) ==
    \/ a[1] < b[1]
    \/ a[1] = b[1] /\ a[2] < b[2]
    \/ a[1] = b[1] /\ a[2] = b[2] /\ a[3] <= b[3]

SortedByLocationDateType(d) ==
    \A i, j \in DOMAIN d : i < j => LexLeq(SortKey(d[i]), SortKey(d[j]))

\* A filtered subset of d is the rows at a set S of positions, in order
MinOf(S) == CHOOSE i \in S : \A j \in S : i <= j
MaxOf(S) == CHOOSE i \in S : \A j \in S : j <= i

FirstEarliestLastLatest(d, S) ==
    \A i \in S : d[MinOf(S)].date <= d[i].date /\ d[i].date <= d[MaxOf(S)].date

OneLocation(d, S) == \A i, j \in S : d[i].loc = d[j].loc

\* C4, as claimed: the output of clean_up is sorted ascending by
\* (location_name, date, case_type), and in any filtered subset of it the
\* first row has the earliest date and the last row the most recent one.
C4_AnySubsetDateOrdered ==
    pc = "clean" =>
        /\ SortedByLocationDateType(out.rows)
        /\ \A S \in SUBSET DOMAIN out.rows :
              S # {} => FirstEarliestLastLatest(out.rows, S)

\* C4, amended: the output of clean_up is sorted ascending by
\* (location_name, date, case_type), and in any filtered subset of it whose
\* rows belong to one location the first row has the earliest date and the
\* last row the most recent one.
C4_OneLocationSubsetDateOrdered ==
    pc = "clean" =>
        /\ SortedByLocationDateType(out.rows)
        /\ \A S \in SUBSET DOMAIN out.rows :
              (S # {} /\ OneLocation(out.rows, S))
                  => FirstEarliestLastLatest(out.rows, S)

\* A cleaned table of two locations, one of them at two dates, with a later
\* row that carries an earlier date than a row before it
C4_Witness ==
    /\ pc = "clean"
    /\ \E i, j \in DOMAIN out.rows :
          /\ i < j
          /\ out.rows[i].loc = out.rows[j].loc
          /\ out.rows[i].date < out.rows[j].date
    /\ \E i, j \in DOMAIN out.rows :
          /\ i < j
          /\ out.rows[i].loc # out.rows[j].loc
          /\ out.rows[i].date > out.rows[j].date

\* The rows of d at the positions keep, in order
SubTable(d, keep) ==
    [p \in 1..Cardinality(keep) |->
        d[CHOOSE i \in keep : Cardinality({j \in keep : j < i}) = p - 1]]

OtherTypeRows(d) == {i \in DOMAIN d : d[i].ctype # CONFIRMED}

VariantCounts == <<NaN, Num(90), Num(100)>>

\* The tables that agree with d on the confirmed rows and differ from it in
\* one row of another case type: the row dropped, or its count changed.
\* (Two tables that agree on the confirmed rows are joined by a chain of
\* such steps.)
Variants(d) ==
    {SubTable(d, DOMAIN d \ {i}) : i \in OtherTypeRows(d)}
    \cup {[d EXCEPT ![i].count = VariantCounts[c]] :
            i \in OtherTypeRows(d), c \in DOMAIN VariantCounts}

\* C5: two cleaned tables that agree on the confirmed rows and differ only in
\* rows of other case types have the same set of retained locations,
\* whenever the filter returns on both.
C5_OnlyConfirmedRowsDecide ==
    (pc = "top_n" /\ out.err = "") =>
        \A v \in Variants(df) :
            LET r == keep_only_n_largest_locations(v, n)
            IN  r.err = "" => LocationNames(r.rows) = Retained

\* A dropped location whose last row is a deaths row with a count that is
\* at least the confirmed count of a retained location
C5_Witness ==
    /\ pc = "top_n"
    /\ out.err = ""
    /\ \E i, j \in DOMAIN df :
          /\ df[i].ctype = DEATHS
          /\ df[i].loc \notin Retained
          /\ \A k \in DOMAIN df : df[k].loc = df[i].loc => k <= i
          /\ df[j].ctype = CONFIRMED
          /\ df[j].loc \in Retained
          /\ Ge(df[i].count, df[j].count)


---------------------------------------------------------------------------
(* The per-capita expansion *)

\* The columns a row came in with
SameInputColumns(r, t) ==
    /\ r.country = t.country /\ r.state = t.state /\ r.date = t.date
    /\ r.ctype = t.ctype /\ r.count = t.count /\ r.pop = t.pop

\* C6: append_percapita_stage_count(T) has exactly 2 * len(T) rows, and its
\* first len(T) rows are the rows of T, in order, with country, state, date,
\* case type, case count and population unchanged.
C6_TwiceTheRowsFirstHalfUnchanged ==
    pc = "expanded" =>
        /\ Len(out.rows) = 2 * Len(df)
        /\ \A i \in DOMAIN df : SameInputColumns(out.rows[i], df[i])

\* An expansion of a table that is not in the order of its per-capita rows
C6_Witness ==
    /\ pc = "expanded"
    /\ Len(df) >= 2
    /\ \E i \in DOMAIN df : df[i].pop # Null /\ df[i].pop # Some(0) /\ df[i].count # Num(0)
    /\ \E i, j \in DOMAIN df : i < j /\ df[i].date > df[j].date

\* x = count / pop for a population that is neither null nor zero
IsQuotient(x, count, pop) ==
    /\ x[2] > 0
    /\ x[1] * pop[1] * count[2] = count[1] * x[2]

\* C7: row len(T) + i of the expansion has the case count of row i of T
\* divided by its population (a null population gives a null quotient), and
\* the case type of row i remapped Cases -> Cases Per Cap., Deaths -> Deaths
\* Per Cap., any other case type unchanged.
C7_PerCapitaHalf ==
    pc = "expanded" =>
        \A i \in DOMAIN df :
            LET r == out.rows[Len(df) + i]
            IN  /\ df[i].pop = Null => IsNaN(r.count)
                /\ (df[i].pop # Null /\ df[i].pop # Some(0))
                      => IsQuotient(r.count, df[i].count, df[i].pop)
                /\ df[i].ctype = CONFIRMED => r.ctype = CONFIRMED_PER_CAPITA
                /\ df[i].ctype = DEATHS => r.ctype = DEATHS_PER_CAPITA
                /\ df[i].ctype \notin {CONFIRMED, DEATHS} => r.ctype = df[i].ctype

\* An expansion of confirmed, deaths and legacy rows with nonzero counts and
\* a population
C7_Witness ==
    /\ pc = "expanded"
    /\ \A t \in {CONFIRMED, DEATHS, RECOVERED} :
          \E i \in DOMAIN df :
              /\ df[i].ctype = t
              /\ df[i].count # Num(0)
              /\ df[i].pop = Some(10000000)
              /\ out.rows[Len(df) + i].count # df[i].count

\* C8, as claimed: a row whose population is null or zero has a null (NaN)
\* per-capita case count, never an infinite or other numeric one.
C8_NullOrZeroPopulationGivesNull ==
    pc = "expanded" =>
        \A i \in DOMAIN df :
            df[i].pop \in {Null, Some(0)} => IsNaN(out.rows[Len(df) + i].count)

---------------------------------------------------------------------------
(* The outbreak annotation *)

\* The rows of the group of row i whose count is at least the threshold
ReachedRows(d, i) ==
    {j \in DOMAIN d :
        /\ d[j].country = d[i].country /\ d[j].state = d[i].state
        /\ d[j].loc = d[i].loc /\ d[j].ctype = d[i].ctype
        /\ Ge(d[j].count, Threshold(d[j].ctype))}

\* C10: every row of a (country, state, location name, case type) group gets
\* as outbreak start the minimum date among the rows of the group with case
\* count >= the threshold of the case type, and the days from it to its own
\* date; if no row of the group reaches the threshold both are null.
C10_OutbreakStartIsMinDateAtThreshold ==
    pc = "annotated" =>
        \A i \in DOMAIN df :
            LET r == out.rows[i]
                reached == ReachedRows(df, i)
            IN  IF reached = {}
                THEN r.outbreak_start = Null /\ IsNaN(r.days_since)
                ELSE /\ \E j \in reached : r.outbreak_start = Some(df[j].date)
                     /\ \A j \in reached : r.outbreak_start[1] <= df[j].date
                     /\ r.days_since[2] > 0
                     /\ r.days_since[1] * SecondsPerDay
                            = (df[i].date - r.outbreak_start[1]) * r.days_since[2]

\* A group that reaches its threshold on two dates, the later one first, and
\* a group that never reaches it
C10_Witness ==
    /\ pc = "annotated"
    /\ \E i, j \in DOMAIN df :
          /\ i < j /\ i \in ReachedRows(df, j) /\ j \in ReachedRows(df, j)
          /\ df[i].date > df[j].date
          /\ df[j].count = Threshold(df[j].ctype)
    /\ \E i \in DOMAIN df : ReachedRows(df, i) = {} /\ ~IsNaN(df[i].count)


\* The columns the annotator is given
AnnotatorInputColumns ==
    {"country", "state", "date", "ctype", "count", "pop", "stage", "count_type",
     "is_state", "loc"}

\* C11: the outbreak annotator returns as many rows as it is given, in the
\* same order, each with its input columns unchanged and with exactly two
\* columns more, the outbreak start date and the days since the outbreak.
C11_SameRowsTwoColumnsMore ==
    pc = "annotated" =>
        /\ Len(out.rows) = Len(df)
        /\ \A i \in DOMAIN df :
              /\ DOMAIN df[i] = AnnotatorInputColumns
              /\ DOMAIN out.rows[i]
                    = AnnotatorInputColumns \cup {"outbreak_start", "days_since"}
              /\ \A c \in AnnotatorInputColumns : out.rows[i][c] = df[i][c]

\* An annotation of a table with a group that is at its threshold on two
\* dates, and with rows of a case type that has no threshold
C11_Witness ==
    /\ pc = "annotated"
    /\ \E i, j \in DOMAIN df :
          /\ i # j /\ i \in ReachedRows(df, j) /\ j \in ReachedRows(df, j)
    /\ \E i \in DOMAIN df : IsNaN(Threshold(df[i].ctype))
    /\ \E i \in DOMAIN out.rows : out.rows[i].outbreak_start = Null
    /\ \E i \in DOMAIN out.rows : out.rows[i].outbreak_start # Null

\* x <= y on floats
Le(x, y) == Ge(y, x)

SameGroup(r, t) ==
    /\ r.country = t.country /\ r.state = t.state
    /\ r.loc = t.loc /\ r.ctype = t.ctype

\* C12: within a (location, case type) group that has an outbreak start date
\* the days since the outbreak do not decrease as the date increases.
C12_DaysSinceNonDecreasing ==
    pc = "annotated" =>
        \A i, j \in DOMAIN out.rows :
            LET r1 == out.rows[i]
                r2 == out.rows[j]
            IN  (SameGroup(r1, r2) /\ r1.outbreak_start # Null /\ r1.date <= r2.date)
                    => Le(r1.days_since, r2.days_since)

\* A group with a start date and rows on two dates, one of them before it
C12_Witness ==
    /\ pc = "annotated"
    /\ \E i, j \in DOMAIN out.rows :
          /\ SameGroup(out.rows[i], out.rows[j])
          /\ out.rows[i].outbreak_start # Null
          /\ out.rows[i].date < out.rows[j].date
          /\ out.rows[i].days_since # out.rows[j].days_since
          /\ ~Ge(out.rows[i].days_since, Num(0))

\* x < y on floats: False whenever either side is NaN
Below(x, y) == ~IsNaN(x) /\ ~IsNaN(y) /\ x[1] * y[2] < y[1] * x[2]

\* In a group that reaches its threshold the earliest row with case count >=
\* threshold has days_since_outbreak exactly 0 and every row with case count
\* >= threshold has days_since_outbreak >= 0
ZeroAtStartAndNonNegativeFromIt ==
    pc = "annotated" =>
        \A i \in DOMAIN out.rows :
            LET r == out.rows[i]
                reached == ReachedRows(df, i)
            IN  /\ (i \in reached /\ \A j \in reached : r.date <= df[j].date)
                      => r.days_since = Num(0)
                /\ i \in reached => Ge(r.days_since, Num(0))

\* C13, as claimed: in a group that reaches its threshold the earliest row
\* with case count >= threshold has days_since_outbreak exactly 0, every row
\* with case count >= threshold has days_since_outbreak >= 0, and every row
\* with negative days_since_outbreak has a case count below the threshold.
C13_NegativeDaysBelowThreshold ==
    /\ ZeroAtStartAndNonNegativeFromIt
    /\ pc = "annotated" =>
          \A i \in DOMAIN out.rows :
              Below(out.rows[i].days_since, Num(0))
                  => Below(out.rows[i].count, Threshold(out.rows[i].ctype))

---------------------------------------------------------------------------
(* The date adjustment *)

\* C14: _adjust_dates maps a date that is not the current calendar date to
\* that date plus one day and a date that is the current calendar date to the
\* current timestamp; the result has a row per row of the column, and the
\* column it was given is as before.
C14_HistoricalPlusOneDayTodayNow ==
    pc = "adjusted" =>
        /\ Len(out.rows) = Len(df)
        /\ \A i \in DOMAIN df :
              IF CalendarDate(df[i]) = CalendarDate(clock[1])
              THEN out.rows[i] = clock[2]
              ELSE out.rows[i] = df[i] + SecondsPerDay
        /\ \A i \in DOMAIN df : df[i] \in Dates

\* A column with the current date and an earlier one, adjusted at noon
C14_Witness ==
    /\ pc = "adjusted"
    /\ \E i, j \in DOMAIN df :
          /\ CalendarDate(df[i]) = CalendarDate(clock[1])
          /\ CalendarDate(df[j]) < CalendarDate(clock[1])
          /\ out.rows[i] = df[i] + HalfDay
          /\ out.rows[j] = df[j] + SecondsPerDay



\* C26, as claimed: for every behaviour of the clock across its two reads
\* (a read exactly at midnight included), a row whose date is earlier than
\* another row's gets a strictly earlier adjusted timestamp.
C26_StrictlyOrderPreserving ==
    pc = "adjusted" =>
        \A a, b \in DOMAIN df : df[a] < df[b] => out.rows[a] < out.rows[b]

\* C26, amended: for every behaviour of a clock that does not go back and
\* advances by less than a day between its two reads (the clock crossing
\* midnight between them included), a row whose date is earlier than another
\* row's gets an adjusted timestamp that is not later; the two are equal only
\* when the clock reads exactly the midnight that starts the current date,
\* for the row of the current date and the row of the day before.
C26_OrderPreservingStrictUnlessMidnight ==
    (pc = "adjusted" /\ clock[2] - clock[1] < SecondsPerDay) =>
        \A a, b \in DOMAIN df :
            df[a] < df[b] =>
                /\ out.rows[a] <= out.rows[b]
                /\ out.rows[a] = out.rows[b] =>
                      /\ clock[1] = df[b]
                      /\ clock[2] = df[b]
                      /\ df[a] + SecondsPerDay = df[b]

\* The clock crosses midnight between the comparison and the assignment: the
\* row of the date compared as current gets a time of the next day, still
\* before the adjusted date of the row of that next day
C26_Witness ==
    /\ pc = "adjusted"
    /\ CalendarDate(clock[1]) < CalendarDate(clock[2])
    /\ clock[2] - clock[1] < SecondsPerDay
    /\ \E a, b \in DOMAIN df :
          /\ CalendarDate(df[a]) = CalendarDate(clock[1])
          /\ df[a] < df[b]
          /\ out.rows[a] = clock[2]
          /\ out.rows[a] < out.rows[b]


---------------------------------------------------------------------------
(* End to end: a table of three countries and five days is expanded and     *)
(* annotated as read() does (read_in_data.py), and the table read() returns *)
(* is given to the countries view (case_tracker.py)                         *)

\* The locations A, B and C of the scenario
ScenarioLocations == <<"France", "Iran", "Italy">>

\* Confirmed counts below, at and above the threshold of 100
ScenarioCounts == {50, 60, 100, 150}

\* The counts of the three locations over the five days, as running totals:
\* A reaches 100 on day 3, B never, C on day 1
ScenarioSeries ==
    LET RunningTotals ==
            {c \in [1..5 -> ScenarioCounts] : \A t \in 2..5 : c[t - 1] <= c[t]}
    IN  {<<a, b, c>> : a \in {x \in RunningTotals : x[2] < 100 /\ x[3] >= 100},
                       b \in {x \in RunningTotals : x[5] < 100},
                       c \in {x \in RunningTotals : x[1] >= 100}}

\* The concatenated table of read(): a block of rows per location, the days
\* of a block ascending
InitScenario ==
    /\ pc = "read"
    /\ \E c \in ScenarioSeries :
          /\ df = [i \in 1..(5 * Len(ScenarioLocations)) |->
                     LET l == ((i - 1) \div 5) + 1
                         t == ((i - 1) % 5) + 1
                     IN  [country |-> ScenarioLocations[l], state |-> "",
                          date |-> Day(t), ctype |-> CONFIRMED,
                          count |-> Num(c[l][t]), pop |-> Some(10000000)]]
          /\ out = Returned(df)
    /\ n = 0
    /\ clock = <<>>

NextScenario ==
    \/ AppendPercapitaStageCount
    \/ GetDfWithOutbreakStartDateAndDaysSince
    \/ GetCountriesDf

SpecScenario == InitScenario /\ [][NextScenario]_vars

---------------------------------------------------------------------------
(* The steps of SaveFormats.read, each on its inputs *)

InitPipeline == InitDates \/ InitRead

NextPipeline == NextDates \/ NextRead

SpecPipeline == InitPipeline /\ [][NextPipeline]_vars

\* At most one row per (location_name, country, state, case_type, date)
UniqueByKey(d) ==
    \A i, j \in DOMAIN d :
        (/\ d[i].loc = d[j].loc /\ d[i].country = d[j].country
         /\ d[i].state = d[j].state /\ d[i].ctype = d[j].ctype
         /\ d[i].date = d[j].date) => i = j

\* C21, as claimed: the date normalization gives rows of distinct dates
\* distinct timestamps, and the per-capita expander (whatever the case types)
\* and the outbreak annotator return a table with at most one row per key
\* when they are given one.
C21_UniquenessPreserved ==
    /\ pc = "adjusted" =>
          \A i, j \in DOMAIN df : df[i] # df[j] => out.rows[i] # out.rows[j]
    /\ pc = "expanded" =>
          (UniqueRows(df) => UniqueRows(out.rows))
    /\ pc = "annotated" =>
          (UniqueByKey(df) => UniqueByKey(out.rows))

\* C21, amended: the date normalization gives rows of distinct dates distinct
\* timestamps unless the time it assigns to the current date is a midnight;
\* the per-capita expander returns at most one row per key when it is given
\* one and every case type of the table is remapped (Cases, Deaths); the
\* outbreak annotator returns at most one row per key when it is given one.
C21_UniquenessPreservedForRemappedTypes ==
    /\ (pc = "adjusted" /\ clock[2] % SecondsPerDay # 0) =>
          \A i, j \in DOMAIN df : df[i] # df[j] => out.rows[i] # out.rows[j]
    /\ (pc = "expanded" /\ \A i \in DOMAIN df : df[i].ctype \in {CONFIRMED, DEATHS}) =>
          (UniqueRows(df) => UniqueRows(out.rows))
    /\ pc = "annotated" =>
          (UniqueByKey(df) => UniqueByKey(out.rows))

\* An annotated table that holds, for one location and date, the rows of a
\* case type and of its per-capita counterpart, each once
C21_Witness ==
    /\ pc = "annotated"
    /\ UniqueByKey(df)
    /\ Len(out.rows) >= 4
    /\ \E i, j \in DOMAIN out.rows :
          /\ out.rows[i].loc = out.rows[j].loc
          /\ out.rows[i].date = out.rows[j].date
          /\ out.rows[i].ctype = CONFIRMED
          /\ out.rows[j].ctype = CONFIRMED_PER_CAPITA


---------------------------------------------------------------------------
(* The end-to-end scenario *)

\* C22: on the table of three locations and five days in which A reaches the
\* confirmed threshold on day 3, B never and C on day 1, the countries view
\* with N = 2 returns, without raising, exactly the locations A and C; the
\* rows of A of days 3, 4 and 5 have days_since 0, 1 and 2, and every row of
\* B in the annotated table has neither a start date nor days_since.
C22_ScenarioReturnsAAndC ==
    (pc = "countries" /\ n = 2) =>
        /\ out.err = ""
        /\ Retained = {ScenarioLocations[1], ScenarioLocations[3]}
        /\ \A i \in DOMAIN out.rows :
              (out.rows[i].loc = ScenarioLocations[1] /\ out.rows[i].date >= Day(3)) =>
                  out.rows[i].days_since = Num((out.rows[i].date \div SecondsPerDay) - 3)
        /\ \A t \in 3..5 : \E i \in DOMAIN out.rows :
              /\ out.rows[i].loc = ScenarioLocations[1]
              /\ out.rows[i].ctype = CONFIRMED
              /\ out.rows[i].date = Day(t)
        /\ \A i \in DOMAIN df :
              df[i].loc = ScenarioLocations[2] =>
                  df[i].outbreak_start = Null /\ IsNaN(df[i].days_since)

\* The view with N = 2 of a scenario in which A ends above C and B at 60
C22_Witness ==
    /\ pc = "countries"
    /\ n = 2
    /\ out.err = ""
    /\ \E i, j, k \in DOMAIN df :
          /\ df[i].loc = ScenarioLocations[1] /\ df[i].date = Day(5)
          /\ df[i].count = Num(150)
          /\ df[j].loc = ScenarioLocations[3] /\ df[j].date = Day(5)
          /\ df[j].count = Num(100)
          /\ df[k].loc = ScenarioLocations[2] /\ df[k].date = Day(5)
          /\ df[k].count = Num(60)
    /\ Cardinality(Retained) = 2


---------------------------------------------------------------------------
(* The lookups by (field, stage, count) *)

\* The members a lookup handles as stage or count: those of the enum, and
\* for get_info_items_for also Select.ALL
Handled(enum) ==
    IF pc = "items" THEN Members(enum) \cup {"Select.ALL"} ELSE Members(enum)

\* C15, as claimed: a lookup that is passed a field, a stage or a count that
\* is no handled case of the enum expected there (Select.DEFAULT where only
\* Select.ALL is handled included) raises StrictEnumError.
C15_UnhandledCaseRaisesStrictEnumError ==
    (/\ pc \in {"item", "items"}
     /\ \/ \E i \in DOMAIN df.fields : df.fields[i] \notin Members(InfoField)
        \/ df.stage \notin Handled(DiseaseStage)
        \/ df.count \notin Handled(Counting))
        => out.err = "StrictEnumError"

---------------------------------------------------------------------------
(* The views *)

\* The locations of the non-state rows of df that have a current confirmed
\* value and are not named in `excluded`
Ranked(excluded) ==
    {loc \in ValuedLocations(df) \ excluded :
        \E i \in DOMAIN df : df[i].loc = loc /\ ~df[i].is_state}

\* v is the minimum of the k largest current confirmed values of `locs`
IsCutoffAmong(locs, k, v) ==
    LET above == {l \in locs : ~Ge(v, CurrentConfirmed(df, l))}
        at_least == {l \in locs : Ge(CurrentConfirmed(df, l), v)}
    IN  /\ \E l \in locs : CurrentConfirmed(df, l) = v
        /\ Cardinality(above) < k
        /\ Cardinality(at_least) >= k \/ at_least = locs

\* The locations of `locs` at or above the cutoff of the k largest
TopOf(locs, k) ==
    {loc \in locs :
        \E v \in {CurrentConfirmed(df, l) : l \in locs} :
            IsCutoffAmong(locs, k, v) /\ Ge(CurrentConfirmed(df, loc), v)}

\* C16, as claimed: get_countries_df ranks exactly the rows with is_state
\* false whose location_name is no world aggregate (World, Non-China); China
\* is eligible unless the caller excludes it, and the call has no argument
\* that excludes it.
C16_RanksNonStateNonAggregate ==
    (pc = "countries" /\ out.err = "") =>
        Retained = TopOf(Ranked({WORLD, WORLD_MINUS_CHINA}), n)

\* The country a subdivisions view was asked for
RequestedCountry == IF pc = "usa_states" THEN USA ELSE CHINA

\* C17: every row a subdivisions view returns has the requested country and
\* is_state true, and no row of it is returned by the countries view of the
\* same table, whatever the N of the countries view.
C17_SubdivisionRowsOnlyDisjointFromCountries ==
    (pc \in {"usa_states", "chinese_provinces"} /\ out.err = "") =>
        /\ \A i \in DOMAIN out.rows :
              /\ out.rows[i].country = RequestedCountry
              /\ out.rows[i].is_state
        /\ \A k \in 1..MaxN :
              LET countries == get_countries_df(df, k)
              IN  \A i \in DOMAIN out.rows, j \in DOMAIN countries.rows :
                      out.rows[i] # countries.rows[j]

\* The states view of a table that also holds the aggregate row of the USA,
\* which the countries view returns
C17_Witness ==
    /\ pc = "usa_states"
    /\ out.err = ""
    /\ out.rows # <<>>
    /\ \E i \in DOMAIN df : df[i].country = USA /\ ~df[i].is_state
    /\ \E j \in DOMAIN get_countries_df(df, n).rows :
          get_countries_df(df, n).rows[j].country = USA

\* C18: the countries view of the result of a countries view, with the same
\* N, is that result: same rows, same order, and no raise.
C18_CountriesViewIdempotent ==
    (pc = "countries" /\ out.err = "") => get_countries_df(out.rows, n) = out

\* A first result that holds more than N countries, tied at the cutoff, and
\* that dropped a row of the table
C18_Witness ==
    /\ pc = "countries"
    /\ out.err = ""
    /\ Cardinality(Retained) > n
    /\ Len(out.rows) < Len(df)

\* sub consists of rows of d, in the order of d: each row of sub is matched
\* with the first row of d, after the previous match, that equals it
RECURSIVE IsSubTable(_, _)
IsSubTable(sub, d) ==
    IF sub = <<>> THEN TRUE
    ELSE IF d = <<>> THEN FALSE
    ELSE IF Head(sub) = Head(d) THEN IsSubTable(Tail(sub), Tail(d))
    ELSE IsSubTable(sub, Tail(d))

\* C19: the top-N filter and the views return rows of their input, unchanged
\* and in the order of the input, and every input row of a location that is
\* retained is returned, whatever its case type and date.
C19_SubTableWholeLocations ==
    (/\ pc \in {"top_n", "countries", "usa_states", "chinese_provinces"}
     /\ out.err = "") =>
        /\ IsSubTable(out.rows, df)
        /\ \A i \in DOMAIN df :
              df[i].loc \in Retained =>
                  \E j \in DOMAIN out.rows : out.rows[j] = df[i]

\* A countries view that dropped a row and returned a country with its rows
\* of both case types
C19_Witness ==
    /\ pc = "countries"
    /\ out.err = ""
    /\ Len(out.rows) < Len(df)
    /\ \E i, j \in DOMAIN out.rows :
          /\ out.rows[i].loc = out.rows[j].loc
          /\ out.rows[i].ctype = CONFIRMED
          /\ out.rows[j].ctype = DEATHS

\* C23, as claimed: for every cleaned table, the empty one and one with a
\* location without a confirmed row included, the top-N filter and the three
\* views do not raise and return rows of the table in its order.
C23_NeverRaises ==
    pc \in {"top_n", "countries", "usa_states", "chinese_provinces"} =>
        out.err = "" /\ IsSubTable(out.rows, df)

\* C24, as claimed: when keep_only_n_largest_locations returns, for every
\* location (location_name, country, state) of the table the value the
\* re-filter compares with the cutoff, the last confirmed count of the group
\* of its location_name, is the value that was ranked for it, the last
\* confirmed count of its own group; and it is the count of a confirmed row
\* of that location of its most recent date.
C24_ComparedValueIsRankedValue ==
    (pc = "top_n" /\ out.err = "") =>
        LET ranked == CurrentByLocation(ConfirmedRows(df))
        IN  \A p \in DOMAIN ranked :
                LET compared == Last(ConfirmedCountsOf(df, ranked[p].key[1])).count
                IN  /\ compared = ranked[p].value
                    /\ \E i \in DOMAIN df :
                          /\ LocationKey(df[i]) = ranked[p].key
                          /\ df[i].ctype = CONFIRMED
                          /\ df[i].count = compared
                          /\ \A j \in DOMAIN df :
                                (/\ LocationKey(df[j]) = ranked[p].key
                                 /\ df[j].ctype = CONFIRMED) =>
                                    df[j].date <= df[i].date

\* C25, as claimed: when remove_empty_leading_dates returns, it has removed
\* exactly the rows dated before the earliest date on which some location
\* has a confirmed count above zero, whatever the order of the locations.
C25_RemovesExactlyBeforeEarliestNonzero ==
    (pc = "leading" /\ out.err = "") =>
        LET nonzero == {i \in DOMAIN df : /\ df[i].ctype = CONFIRMED
                                          /\ Ge(df[i].count, Num(0))
                                          /\ df[i].count # Num(0)}
            earliest == CHOOSE t \in {df[i].date : i \in nonzero} :
                            \A i \in nonzero : t <= df[i].date
        IN  out.rows = SelectSeq(df, LAMBDA r : r.date >= earliest)

---------------------------------------------------------------------------
(* The periodic fetch *)

\* C27, as claimed: request_file_and_save makes at most 100 attempts and
\* leaves the loop at the first one that does not raise; a file appears in
\* the data directory only when an attempt has succeeded, and when all 100
\* attempts failed the call ends in an error with no file written.
C27_FileOnlyAfterSuccess ==
    /\ [](n <= MaxAttempts)
    /\ [](pc = "attempt" => out.rows = Null)
    /\ [][Len(df') > Len(df) => out.rows # Null]_vars
    /\ [](pc = "crashed" => out.err # "")

---------------------------------------------------------------------------
(* The derived columns of the ingestion paths *)

\* C20, as claimed: in the table each ingestion path produces (get_old_data,
\* get_df after clean_up, SaveFormats.read), is_state is true if and only if
\* the state is non-empty (neither "" nor missing), and location_name is the
\* state when is_state is true and the country otherwise.
C20_IsStateIffStateLocationNameFromIt ==
    pc \in {"old", "clean", "annotated"} =>
        \A i \in DOMAIN out.rows :
            LET r == out.rows[i]
            IN  /\ r.is_state <=> r.state \notin {"", NA}
                /\ r.loc = IF r.is_state THEN r.state ELSE r.country


\* C28, as stated: a finished call of get_full_dataset has read from the web
\* if and only if it was asked to fetch unconditionally, or to use the local
\* file if it exists and reading the local file failed, whatever the failure;
\* asked to use the local file unconditionally it never fetches and raises on
\* a missing file; a call that fetched and returned has written what it
\* returns to the local file; no call is nested deeper than once
C28_FetchesIffAskedOrLocalReadFailed ==
    /\ df.depth <= 2
    /\ df.fetched <= 1
    /\ (pc = "done") =>
        /\ (df.fetched = 1) <=>
              \/ df.asked = "FETCH_FROM_WEB_UNCONDITIONALLY"
              \/ /\ df.asked = "USE_LOCAL_IF_EXISTS_ELSE_FETCH_FROM_WEB"
                 /\ df.read \notin {"", "read"}
        /\ (df.asked = "USE_LOCAL_UNCONDITIONALLY") =>
              /\ df.fetched = 0
              /\ (df.read = "FileNotFoundError") => (out.err = "FileNotFoundError")
        /\ (df.fetched = 1 /\ out.err = "") => (df.local = out.rows)

\* C28, amended: the failure that is answered by a fetch is FileNotFoundError
\* or another IOError; any other exception of the local read leaves the call
\* without a fetch
C28_FetchesIffAskedOrLocalReadRaisedIOError ==
    /\ df.depth <= 2
    /\ df.fetched <= 1
    /\ (pc = "done") =>
        /\ (df.fetched = 1) <=>
              \/ df.asked = "FETCH_FROM_WEB_UNCONDITIONALLY"
              \/ /\ df.asked = "USE_LOCAL_IF_EXISTS_ELSE_FETCH_FROM_WEB"
                 /\ df.read \in {"FileNotFoundError", "PermissionError"}
        /\ (df.fetched = 0 /\ df.read \notin {"", "read"}) => (out.err = df.read)
        /\ (df.asked = "USE_LOCAL_UNCONDITIONALLY") =>
              /\ df.fetched = 0
              /\ (df.read = "FileNotFoundError") => (out.err = "FileNotFoundError")
        /\ (df.fetched = 1 /\ out.err = "") => (df.local = out.rows)

\* A call asked to use the local file if it exists found none, fetched in
\* the nested call, wrote the local file and returned the table
C28_Witness ==
    /\ pc = "done"
    /\ df.asked = "USE_LOCAL_IF_EXISTS_ELSE_FETCH_FROM_WEB"
    /\ df.read = "FileNotFoundError"
    /\ df.depth = 2
    /\ df.fetched = 1
    /\ out = Returned(Some("table 2"))
    /\ df.local = Some("table 2")


\* C29: after a successful call of save_file_with_digest on a directory that
\* held at most one file matching the stub, the directory holds exactly one
\* such file, named by the SHA-1 digest of the new data; the file that was
\* there is gone if and only if its name differs from the new one; files of
\* the other stub are left alone
C29_AtMostOneFilePerStub ==
    LET MatchingIn(dir) == {f \in dir : f.stub = df.filename_stub}
    IN  (/\ n > 0
         /\ out.err = ""
         /\ Cardinality(MatchingIn(df.before)) <= 1) =>
            /\ Cardinality(MatchingIn(df.dir)) = 1
            /\ \A f \in MatchingIn(df.dir) :
                  /\ Some(f) = df.new_data_file_name
                  /\ f.digest = hexdigest(df.data)
                  /\ f.rest = ""
            /\ \A f \in MatchingIn(df.before) :
                  (f \notin df.dir) <=> (Some(f) # df.new_data_file_name)
            /\ df.dir \ MatchingIn(df.dir) = df.before \ MatchingIn(df.before)

\* A successful call with unchanged data: the file it wrote over is the one
\* file of the stub before and after
C29_Witness ==
    /\ n > 0
    /\ out.err = ""
    /\ {Some(f) : f \in {g \in df.before : g.stub = df.filename_stub}}
          = {df.new_data_file_name}
    /\ {Some(f) : f \in {g \in df.dir : g.stub = df.filename_stub}}
          = {df.new_data_file_name}


\* C30: the outbreak start index that data_to_json exports for a location
\* and a case-type column is the number of the location's rows whose value
\* in that column is below the outbreak cutoff of that same column
C30_StartIndexUsesOwnCutoff ==
    (pc = "json" /\ out.err = "") =>
        \A code \in DOMAIN out.rows : \A col \in DOMAIN out.rows[code] :
            out.rows[code][col] =
                outbreak_start_idx(SelectSeq(df, LAMBDA r : r.code = code), col, col)

====
